---- MODULE Spec2Model ----
(***************************************************************************)
(* A model of the Aseprite decoder of rpg_demo/aseprite (aseprite.go):     *)
(* ParseFile, readHeader, readFrame, readChunk, parseTagsChunk,            *)
(* parseCelChunk, drawCelToImage and File.GetFrameImage.                   *)
(*                                                                         *)
(* Input buffers are sequences of bytes (0..255).  A reader offset is the  *)
(* number of bytes consumed so far.  32-bit unsigned values are kept as a  *)
(* pair of 16-bit halves [lo, hi], so that the wrap-around of uint32       *)
(* arithmetic is computed exactly without leaving the integers the model   *)
(* checker can represent.                                                  *)
(***************************************************************************)
EXTENDS Integers, Sequences, FiniteSets, TLC

\* ------------------------------------------------------------------ bounds

\* Largest number of frames a generated file declares.
MaxFrames == 2
\* Largest number of chunks in one generated frame.
MaxChunks == 2
\* Largest number of tag records in one generated Tags chunk.
MaxTags == 2

\* ------------------------------------------------------- program constants

\* The magic number ParseFile accepts.
AseMagic == 42464
\* Chunk type codes ParseFile and GetFrameImage dispatch on.
TagsChunkType == 8216
CelChunkType == 8197
\* The only cel type parseCelChunk decodes.
CelCompressed == 2

\* ---------------------------------------------------------------- helpers

Min(a, b) == IF a < b THEN a ELSE b

RECURSIVE Zeros(_)
Zeros(n) == IF n <= 0 THEN <<>> ELSE <<0>> \o Zeros(n - 1)

RECURSIVE Flatten(_)
Flatten(ss) == IF ss = <<>> THEN <<>> ELSE Head(ss) \o Flatten(Tail(ss))

Take(s, n) == SubSeq(s, 1, Min(n, Len(s)))

\* A uint32 as two 16-bit halves.
W32(n) == [lo |-> n % 65536, hi |-> (n \div 65536) % 65536]
W32Zero == [lo |-> 0, hi |-> 0]

\* uint32 subtraction of a small constant, modulo 2^32.
W32Sub(w, k) ==
    IF w.lo >= k THEN [lo |-> w.lo - k, hi |-> w.hi]
    ELSE [lo |-> w.lo - k + 65536, hi |-> (w.hi + 65535) % 65536]

\* A uint32 used as a count or a length against a buffer of fewer than
\* 2^20 bytes: every value of 2^20 or more behaves like 2^20.
Huge == 1048576
W32Int(w) == IF w.hi >= 16 THEN Huge ELSE w.lo + 65536 * w.hi

\* ------------------------------------------------------ the byte reader

\* bytes.Reader.Len(): the bytes left after offset p.
Rem(d, p) == Len(d) - p

\* The error of binary.Read / io.ReadFull asked for n bytes at offset p.
ReadErr(d, p, n) ==
    IF n = 0 \/ Rem(d, p) >= n THEN "nil"
    ELSE IF Rem(d, p) = 0 THEN "EOF" ELSE "UnexpectedEOF"

\* reader.Read(make([]byte, n)) with its result dropped: the offset after it.
Skip(d, p, n) == p + Min(n, Rem(d, p))

LE16(d, p) == d[p + 1] + 256 * d[p + 2]
LE32(d, p) == [lo |-> LE16(d, p), hi |-> LE16(d, p + 2)]
Signed16(v) == IF v >= 32768 THEN v - 65536 ELSE v

FieldWidth(k) ==
    CASE k = "u8" -> 1 [] k = "u16" -> 2 [] k = "i16" -> 2
      [] k = "u32" -> 4 [] k = "rgb" -> 3

FieldValue(d, p, k) ==
    CASE k = "u8" -> d[p + 1]
      [] k = "u16" -> LE16(d, p)
      [] k = "i16" -> Signed16(LE16(d, p))
      [] k = "u32" -> LE32(d, p)
      [] k = "rgb" -> <<d[p + 1], d[p + 2], d[p + 3]>>

\* One step of a fixed layout: a field read with binary.Read, whose error
\* returns at once, or a reserved region skipped with an unchecked Read.
Fld(name, kind) == [name |-> name, kind |-> kind, n |-> 0]
Rsv(n) == [name |-> "", kind |-> "skip", n |-> n]

\* Walks layout[j..] from offset p.  val holds the fields read so far.
RECURSIVE ReadFields(_, _, _, _, _)
ReadFields(d, p, layout, j, val) ==
    IF j > Len(layout) THEN [err |-> "nil", pos |-> p, val |-> val]
    ELSE LET s == layout[j] IN
         IF s.kind = "skip"
         THEN ReadFields(d, Skip(d, p, s.n), layout, j + 1, val)
         ELSE LET e == ReadErr(d, p, FieldWidth(s.kind)) IN
              IF e # "nil" THEN [err |-> e, pos |-> Len(d), val |-> val]
              ELSE ReadFields(d, p + FieldWidth(s.kind), layout, j + 1,
                              (s.name :> FieldValue(d, p, s.kind)) @@ val)

\* ----------------------------------------------------------- readHeader

\* A variant of HeaderLayout that skips 2 bytes, not 3, after Transparent.
HeaderLayoutTight ==
    << Fld("FileSize", "u32"), Fld("MagicNumber", "u16"),
       Fld("Frames", "u16"), Fld("Width", "u16"), Fld("Height", "u16"),
       Fld("ColorDepth", "u16"), Fld("Flags", "u32"), Fld("Speed", "u16"),
       Rsv(8),
       Fld("Transparent", "u8"),
       Rsv(2),
       Fld("Colors", "u16"), Fld("PixelWidth", "u8"),
       Fld("PixelHeight", "u8"), Fld("GridX", "i16"), Fld("GridY", "i16"),
       Fld("GridWidth", "u16"), Fld("GridHeight", "u16"),
       Rsv(84) >>

HeaderLayout ==
    << Fld("FileSize", "u32"), Fld("MagicNumber", "u16"),
       Fld("Frames", "u16"), Fld("Width", "u16"), Fld("Height", "u16"),
       Fld("ColorDepth", "u16"), Fld("Flags", "u32"), Fld("Speed", "u16"),
       Rsv(8),
       Fld("Transparent", "u8"),
       Rsv(3),
       Fld("Colors", "u16"), Fld("PixelWidth", "u8"),
       Fld("PixelHeight", "u8"), Fld("GridX", "i16"), Fld("GridY", "i16"),
       Fld("GridWidth", "u16"), Fld("GridHeight", "u16"),
       Rsv(84) >>

\* [err, pos, val]: val is the Header when err = "nil".
readHeader(d) == ReadFields(d, 0, HeaderLayout, 1, <<>>)

\* ------------------------------------------------------------ readChunk

ChunkPrefixLayout == << Fld("Size", "u32"), Fld("Type", "u16") >>

\* make([]byte, n) for a uint32 n of 2^31 or more: the length is out of
\* range of int on a 32-bit build and several GiB on a 64-bit one, so the
\* allocation may end the program instead of returning.
ByteAllocMayFail(w) == w.hi >= 32768

\* make([]*Chunk, n): the same for a slice of pointers (4 or 8 bytes each).
PtrAllocMayFail(w) == w.hi >= 8192

\* A variant of ChunkDataSize that takes the declared size for the length
\* of the payload.
ChunkDataSizeWhole(size) == size

\* dataSize := chunk.Size - 6, in uint32.
ChunkDataSize(size) == W32Sub(size, 6)

\* The result of a readChunk call that started at offset from: chunk is the
\* Chunk when err = "nil" and panic = FALSE, pos the offset afterwards,
\* sized whether the call got as far as computing dataSize from size.
ChunkResult(err, panic, pos, chunk, from, sized, size, dataSize) ==
    [err |-> err, panic |-> panic, pos |-> pos, chunk |-> chunk,
     from |-> from, sized |-> sized, size |-> size, dataSize |-> dataSize]

NoChunk == [Size |-> W32Zero, Type |-> 0, Data |-> <<>>]

\* readChunk after the size and type fields pre were read, for the payload
\* length dataSize: the allocation, then io.ReadFull.
readChunkData(d, p, allocOK, pre, dataSize) ==
    IF ByteAllocMayFail(dataSize) /\ ~allocOK
    THEN ChunkResult("nil", TRUE, pre.pos, NoChunk, p, TRUE, pre.val.Size, dataSize)
    ELSE IF ReadErr(d, pre.pos, W32Int(dataSize)) # "nil"
    THEN ChunkResult(ReadErr(d, pre.pos, W32Int(dataSize)), FALSE, Len(d),
                     NoChunk, p, TRUE, pre.val.Size, dataSize)
    ELSE ChunkResult("nil", FALSE, pre.pos + W32Int(dataSize),
                     [Size |-> pre.val.Size, Type |-> pre.val.Type,
                      Data |-> SubSeq(d, pre.pos + 1, pre.pos + W32Int(dataSize))],
                     p, TRUE, pre.val.Size, dataSize)

\* readChunk after the read of the size and type fields returned pre.
readChunkPrefix(d, p, allocOK, pre) ==
    IF pre.err # "nil"
    THEN ChunkResult(pre.err, FALSE, pre.pos, NoChunk, p, FALSE, W32Zero, W32Zero)
    ELSE readChunkData(d, p, allocOK, pre, ChunkDataSize(pre.val.Size))

\* One readChunk call at offset p.  allocOK is the outcome of an allocation
\* that may fail.
readChunk(d, p, allocOK) ==
    readChunkPrefix(d, p, allocOK, ReadFields(d, p, ChunkPrefixLayout, 1, <<>>))

\* ------------------------------------------------------------ readFrame

FrameHeaderLayout ==
    << Fld("BytesInFrame", "u32"), Fld("MagicNumber", "u16"),
       Fld("OldChunks", "u16"), Fld("Duration", "u16"),
       Rsv(2),
       Fld("NewChunks", "u32") >>

\* A variant of NumChunks without the fallback to the old count.
NumChunksNewOnly(fh) == fh.NewChunks

\* numChunks: the new count, or the old one when the new one is zero.
NumChunks(fh) == IF fh.NewChunks = W32Zero THEN W32(fh.OldChunks) ELSE fh.NewChunks

\* What a readChunk result r leaves in the log of calls.
CallOf(r) == [from |-> r.from, pos |-> r.pos, err |-> r.err, panic |-> r.panic,
              sized |-> r.sized, size |-> r.size, dataSize |-> r.dataSize]

\* The loop over readChunk: k chunks read so far into chunks, n wanted.
\* calls is the list of the readChunk calls so far.
RECURSIVE readChunks(_, _, _, _, _, _, _)
RECURSIVE readChunksStep(_, _, _, _, _, _, _)
readChunksStep(d, k, n, chunks, calls, allocOK, r) ==
    IF r.panic \/ r.err # "nil"
    THEN [err |-> r.err, panic |-> r.panic, pos |-> r.pos, chunks |-> chunks,
          calls |-> Append(calls, CallOf(r))]
    ELSE readChunks(d, r.pos, k + 1, n, Append(chunks, r.chunk),
                    Append(calls, CallOf(r)), allocOK)

readChunks(d, p, k, n, chunks, calls, allocOK) ==
    IF k >= n THEN [err |-> "nil", panic |-> FALSE, pos |-> p,
                    chunks |-> chunks, calls |-> calls]
    ELSE readChunksStep(d, k, n, chunks, calls, allocOK, readChunk(d, p, allocOK))

\* readFrame after its loop over the chunks returned r.
readFrameResult(h, r) ==
    [err |-> r.err, panic |-> r.panic, pos |-> r.pos,
     frame |-> IF r.err = "nil" /\ ~r.panic
               THEN << [Header |-> h.val, Chunks |-> r.chunks] >>
               ELSE <<>>,
     calls |-> r.calls]

\* A variant of readFrameChunks that rejects a frame whose magic number is
\* not 0xF1FA.
readFrameChunksChecked(d, allocOK, h) ==
    IF h.err # "nil"
    THEN [err |-> h.err, panic |-> FALSE, pos |-> h.pos, frame |-> <<>>,
          calls |-> <<>>]
    ELSE IF h.val.MagicNumber # 61946
    THEN [err |-> "invalid frame magic", panic |-> FALSE, pos |-> h.pos,
          frame |-> <<>>, calls |-> <<>>]
    ELSE IF PtrAllocMayFail(NumChunks(h.val)) /\ ~allocOK
    THEN [err |-> "nil", panic |-> TRUE, pos |-> h.pos, frame |-> <<>>,
          calls |-> <<>>]
    ELSE readFrameResult(h, readChunks(d, h.pos, 0, W32Int(NumChunks(h.val)),
                                       <<>>, <<>>, allocOK))

\* readFrame after the read of the frame header returned h.
readFrameChunks(d, allocOK, h) ==
    IF h.err # "nil"
    THEN [err |-> h.err, panic |-> FALSE, pos |-> h.pos, frame |-> <<>>,
          calls |-> <<>>]
    ELSE IF PtrAllocMayFail(NumChunks(h.val)) /\ ~allocOK
    THEN [err |-> "nil", panic |-> TRUE, pos |-> h.pos, frame |-> <<>>,
          calls |-> <<>>]
    ELSE readFrameResult(h, readChunks(d, h.pos, 0, W32Int(NumChunks(h.val)),
                                       <<>>, <<>>, allocOK))

\* One readFrame call at offset p.  [err, panic, pos, frame, calls]: frame
\* is <<the Frame>> when the call returns one and <<>> (nil) otherwise.
readFrame(d, p, allocOK) ==
    readFrameChunks(d, allocOK, ReadFields(d, p, FrameHeaderLayout, 1, <<>>))

\* -------------------------------------------------------- parseTagsChunk

TagLayout ==
    << Fld("FromFrame", "u16"), Fld("ToFrame", "u16"),
       Fld("Direction", "u8"), Fld("Repeat", "u16"),
       Rsv(6),
       Fld("Color", "rgb"),
       Rsv(1),
       Fld("nameLength", "u16") >>

\* A variant of readTags that keeps the records read before a failing one.
RECURSIVE readTagsPartial(_, _, _, _, _)
readTagsPartial(d, p, k, n, tags) ==
    IF k >= n THEN [err |-> "nil", tags |-> tags]
    ELSE LET f == ReadFields(d, p, TagLayout, 1, <<>>) IN
         IF f.err # "nil" THEN [err |-> "nil", tags |-> tags]
         ELSE LET e == ReadErr(d, f.pos, f.val.nameLength) IN
              IF e # "nil" THEN [err |-> "nil", tags |-> tags]
              ELSE readTagsPartial(d, f.pos + f.val.nameLength, k + 1, n,
                     Append(tags,
                       [Name |-> SubSeq(d, f.pos + 1, f.pos + f.val.nameLength),
                        FromFrame |-> f.val.FromFrame,
                        ToFrame |-> f.val.ToFrame,
                        Direction |-> f.val.Direction,
                        Repeat |-> f.val.Repeat,
                        Color |-> f.val.Color]))

\* The loop over the tag records: k read so far into tags, n declared.
RECURSIVE readTags(_, _, _, _, _)
readTags(d, p, k, n, tags) ==
    IF k >= n THEN [err |-> "nil", tags |-> tags]
    ELSE LET f == ReadFields(d, p, TagLayout, 1, <<>>) IN
         IF f.err # "nil" THEN [err |-> f.err, tags |-> <<>>]
         ELSE LET e == ReadErr(d, f.pos, f.val.nameLength) IN
              IF e # "nil" THEN [err |-> e, tags |-> <<>>]
              ELSE readTags(d, f.pos + f.val.nameLength, k + 1, n,
                     Append(tags,
                       [Name |-> SubSeq(d, f.pos + 1, f.pos + f.val.nameLength),
                        FromFrame |-> f.val.FromFrame,
                        ToFrame |-> f.val.ToFrame,
                        Direction |-> f.val.Direction,
                        Repeat |-> f.val.Repeat,
                        Color |-> f.val.Color]))

\* [err, tags]: the tags of a Tags chunk payload; tags is empty (nil) on error.
parseTagsChunk(d) ==
    LET c == ReadFields(d, 0, << Fld("numTags", "u16") >>, 1, <<>>) IN
    IF c.err # "nil" THEN [err |-> c.err, tags |-> <<>>]
    ELSE readTags(d, Skip(d, c.pos, 8), 0, c.val.numTags, <<>>)

\* A variant of FrameTags that stops at the first Tags chunk that parses.
RECURSIVE FrameTagsFirst(_, _)
FrameTagsFirst(chunks, j) ==
    IF j > Len(chunks) THEN <<>>
    ELSE IF chunks[j].Type = TagsChunkType
            /\ parseTagsChunk(chunks[j].Data).err = "nil"
    THEN parseTagsChunk(chunks[j].Data).tags
    ELSE FrameTagsFirst(chunks, j + 1)

\* The tags ParseFile appends for one frame: those of its Tags chunks whose
\* payload parses, in chunk order.
RECURSIVE FrameTags(_, _)
FrameTags(chunks, j) ==
    IF j > Len(chunks) THEN <<>>
    ELSE (IF chunks[j].Type = TagsChunkType
          THEN LET t == parseTagsChunk(chunks[j].Data) IN
               IF t.err = "nil" THEN t.tags ELSE <<>>
          ELSE <<>>) \o FrameTags(chunks, j + 1)

\* --------------------------------------------------------- zlib (inflate)

\* Adler-32 of a byte sequence, as the pair [a, b] of its 16-bit sums.
RECURSIVE AdlerFold(_, _, _, _)
AdlerFold(s, j, a, b) ==
    IF j > Len(s) THEN [a |-> a, b |-> b]
    ELSE LET a2 == (a + s[j]) % 65521 IN
         AdlerFold(s, j + 1, a2, (b + a2) % 65521)

Adler32(s) == AdlerFold(s, 1, 1, 0)

\* The blocks of a DEFLATE stream from offset p, out being the bytes
\* inflated so far.  Stored blocks (BTYPE 0) are inflated as compress/flate
\* does; BTYPE 3 is corrupt; the Huffman-coded block types are outside the
\* model and reported as "huffman", which no generated input contains.
RECURSIVE InflateBlocks(_, _, _)
InflateBlocks(z, p, out) ==
    IF Rem(z, p) < 1 THEN [err |-> "UnexpectedEOF", pos |-> p, out |-> out]
    ELSE LET final == z[p + 1] % 2
             btype == (z[p + 1] \div 2) % 4
         IN  IF btype = 3 THEN [err |-> "corrupt", pos |-> p, out |-> out]
             ELSE IF btype # 0 THEN [err |-> "huffman", pos |-> p, out |-> out]
             ELSE IF Rem(z, p + 1) < 4
             THEN [err |-> "UnexpectedEOF", pos |-> p, out |-> out]
             ELSE LET n == LE16(z, p + 1)
                      nn == LE16(z, p + 3)
                  IN  IF nn # 65535 - n
                      THEN [err |-> "corrupt", pos |-> p, out |-> out]
                      ELSE IF Rem(z, p + 5) < n
                      THEN [err |-> "UnexpectedEOF", pos |-> p, out |-> out]
                      ELSE LET o == out \o SubSeq(z, p + 6, p + 5 + n) IN
                           IF final = 1
                           THEN [err |-> "nil", pos |-> p + 5 + n, out |-> o]
                           ELSE InflateBlocks(z, p + 5 + n, o)

\* The blocks and the trailing checksum of a zlib stream whose header ends
\* at offset p.
ZlibBody(z, p) ==
    LET r == InflateBlocks(z, p, <<>>) IN
    IF r.err # "nil" THEN [err |-> r.err, out |-> <<>>]
    ELSE IF Rem(z, r.pos) < 4 THEN [err |-> "UnexpectedEOF", out |-> <<>>]
    ELSE LET ck == Adler32(r.out) IN
         IF  /\ z[r.pos + 1] * 256 + z[r.pos + 2] = ck.b
             /\ z[r.pos + 3] * 256 + z[r.pos + 4] = ck.a
         THEN [err |-> "nil", out |-> r.out]
         ELSE [err |-> "zlib: invalid checksum", out |-> <<>>]

\* zlib.NewReader followed by io.ReadAll: [err, out].  A stream that names
\* a preset dictionary is accepted only with the checksum of the empty one.
ZlibDecode(z) ==
    IF Len(z) < 2 THEN [err |-> "UnexpectedEOF", out |-> <<>>]
    ELSE IF z[1] % 16 # 8 \/ z[1] \div 16 > 7 \/ (z[1] * 256 + z[2]) % 31 # 0
    THEN [err |-> "zlib: invalid header", out |-> <<>>]
    ELSE IF (z[2] \div 32) % 2 = 1
    THEN IF Rem(z, 2) < 4 THEN [err |-> "UnexpectedEOF", out |-> <<>>]
         ELSE IF SubSeq(z, 3, 6) # <<0, 0, 0, 1>>
         THEN [err |-> "zlib: invalid dictionary", out |-> <<>>]
         ELSE ZlibBody(z, 6)
    ELSE ZlibBody(z, 2)

\* --------------------------------------------------------- parseCelChunk

CelLayout ==
    << Fld("LayerIndex", "u16"), Fld("X", "i16"), Fld("Y", "i16"),
       Fld("Opacity", "u8"), Fld("Type", "u16"), Fld("ZIndex", "i16"),
       Rsv(5) >>

CelImageLayout == << Fld("Width", "u16"), Fld("Height", "u16") >>

\* [err, cel]: cel is the Cel when err = "nil".
parseCelChunk(d) ==
    LET f == ReadFields(d, 0, CelLayout, 1, <<>>) IN
    IF f.err # "nil" THEN [err |-> f.err, cel |-> <<>>]
    ELSE IF f.val.Type = CelCompressed
    THEN LET g == ReadFields(d, f.pos, CelImageLayout, 1, f.val) IN
         IF g.err # "nil" THEN [err |-> g.err, cel |-> <<>>]
         ELSE LET z == ZlibDecode(SubSeq(d, g.pos + 1, Len(d))) IN
              IF z.err # "nil" THEN [err |-> z.err, cel |-> <<>>]
              ELSE [err |-> "nil", cel |-> ("Pixels" :> z.out) @@ g.val]
    ELSE [err |-> "unsupported cel type", cel |-> <<>>]

\* -------------------------------------------------------- drawCelToImage

\* A pixel is <<R, G, B, A>>; the zero color.RGBA is transparent black.
ZeroPixel == <<0, 0, 0, 0>>

\* image.NewRGBA(image.Rect(0, 0, w, h)): Pix maps <<x, y>> to its pixel.
NewRGBA(w, h) ==
    [W |-> w, H |-> h,
     Pix |-> [xy \in (0 .. w - 1) \X (0 .. h - 1) |-> ZeroPixel]]

\* A variant of InBounds that takes the first column and row to be outside.
InBoundsPositive(img, imgX, imgY) ==
    imgX > 0 /\ imgY > 0 /\ imgX < img.W /\ imgY < img.H

\* The bounds test that guards img.Set.
InBounds(img, imgX, imgY) ==
    imgX >= 0 /\ imgY >= 0 /\ imgX < img.W /\ imgY < img.H

BytesPerPixel(colorDepth) ==
    IF colorDepth \div 8 = 0 THEN 1 ELSE colorDepth \div 8

\* A variant of SourceColor that takes the alpha of a 16-bit pixel from its
\* first byte and the grey from its second.
SourceColorSwapped(px, pixelIndex, colorDepth) ==
    CASE colorDepth = 32 ->
           IF pixelIndex + 3 < Len(px)
           THEN <<px[pixelIndex + 1], px[pixelIndex + 2], px[pixelIndex + 3],
                  px[pixelIndex + 4]>>
           ELSE ZeroPixel
      [] colorDepth = 16 ->
           IF pixelIndex + 1 < Len(px)
           THEN <<px[pixelIndex + 2], px[pixelIndex + 2], px[pixelIndex + 2],
                  px[pixelIndex + 1]>>
           ELSE ZeroPixel
      [] colorDepth = 8 ->
           IF pixelIndex < Len(px)
           THEN <<px[pixelIndex + 1], px[pixelIndex + 1], px[pixelIndex + 1],
                  255>>
           ELSE ZeroPixel
      [] OTHER -> ZeroPixel

\* A variant of SourceColor that reads every depth it does not know as
\* 8-bit grey.
SourceColorGrey(px, pixelIndex, colorDepth) ==
    CASE colorDepth = 32 ->
           IF pixelIndex + 3 < Len(px)
           THEN <<px[pixelIndex + 1], px[pixelIndex + 2], px[pixelIndex + 3],
                  px[pixelIndex + 4]>>
           ELSE ZeroPixel
      [] colorDepth = 16 ->
           IF pixelIndex + 1 < Len(px)
           THEN <<px[pixelIndex + 1], px[pixelIndex + 1], px[pixelIndex + 1],
                  px[pixelIndex + 2]>>
           ELSE ZeroPixel
      [] OTHER ->
           IF pixelIndex < Len(px)
           THEN <<px[pixelIndex + 1], px[pixelIndex + 1], px[pixelIndex + 1],
                  255>>
           ELSE ZeroPixel

\* The colour of the pixel at byte offset pixelIndex, before opacity.
SourceColor(px, pixelIndex, colorDepth) ==
    CASE colorDepth = 32 ->
           IF pixelIndex + 3 < Len(px)
           THEN <<px[pixelIndex + 1], px[pixelIndex + 2], px[pixelIndex + 3],
                  px[pixelIndex + 4]>>
           ELSE ZeroPixel
      [] colorDepth = 16 ->
           IF pixelIndex + 1 < Len(px)
           THEN <<px[pixelIndex + 1], px[pixelIndex + 1], px[pixelIndex + 1],
                  px[pixelIndex + 2]>>
           ELSE ZeroPixel
      [] colorDepth = 8 ->
           IF pixelIndex < Len(px)
           THEN <<px[pixelIndex + 1], px[pixelIndex + 1], px[pixelIndex + 1],
                  255>>
           ELSE ZeroPixel
      [] OTHER -> ZeroPixel

\* A variant of ScaleAlpha that multiplies in 8 bits.
ScaleAlphaNarrow(a, opacity) == (((a * opacity) % 256) \div 255) % 256

\* c.A = uint8((uint16(c.A) * uint16(cel.Opacity)) / 255)
ScaleAlpha(a, opacity) == (((a * opacity) % 65536) \div 255) % 256

ApplyOpacity(c, opacity) == <<c[1], c[2], c[3], ScaleAlpha(c[4], opacity)>>

\* A variant of drawPixels that leaves the canvas as it is where the cel's
\* pixel is fully transparent.
RECURSIVE drawPixelsOver(_, _, _, _)
drawPixelsOver(img, cel, colorDepth, k) ==
    IF k >= cel.Width * cel.Height THEN img
    ELSE LET x == k % cel.Width
             y == k \div cel.Width
             bpp == BytesPerPixel(colorDepth)
             pixelIndex == (y * cel.Width + x) * bpp
             imgX == cel.X + x
             imgY == cel.Y + y
         IN  IF pixelIndex + bpp > Len(cel.Pixels)
             THEN drawPixelsOver(img, cel, colorDepth, k + 1)
             ELSE IF /\ InBounds(img, imgX, imgY)
                     /\ ApplyOpacity(SourceColor(cel.Pixels, pixelIndex, colorDepth),
                                     cel.Opacity)[4] # 0
             THEN drawPixelsOver(
                    [img EXCEPT !.Pix[<<imgX, imgY>>] =
                       ApplyOpacity(SourceColor(cel.Pixels, pixelIndex, colorDepth),
                                    cel.Opacity)],
                    cel, colorDepth, k + 1)
             ELSE drawPixelsOver(img, cel, colorDepth, k + 1)

\* A variant of drawPixels that writes an empty pixel where the cel's
\* buffer ends before the pixel.
RECURSIVE drawPixelsBlank(_, _, _, _)
drawPixelsBlank(img, cel, colorDepth, k) ==
    IF k >= cel.Width * cel.Height THEN img
    ELSE LET x == k % cel.Width
             y == k \div cel.Width
             bpp == BytesPerPixel(colorDepth)
             pixelIndex == (y * cel.Width + x) * bpp
             imgX == cel.X + x
             imgY == cel.Y + y
         IN  IF ~InBounds(img, imgX, imgY)
             THEN drawPixelsBlank(img, cel, colorDepth, k + 1)
             ELSE drawPixelsBlank(
                    [img EXCEPT !.Pix[<<imgX, imgY>>] =
                       IF pixelIndex + bpp > Len(cel.Pixels) THEN ZeroPixel
                       ELSE ApplyOpacity(SourceColor(cel.Pixels, pixelIndex, colorDepth),
                                         cel.Opacity)],
                    cel, colorDepth, k + 1)

\* The two loops of drawCelToImage, k = y * Width + x counting the pixels
\* visited so far.
RECURSIVE drawPixels(_, _, _, _)
drawPixels(img, cel, colorDepth, k) ==
    IF k >= cel.Width * cel.Height THEN img
    ELSE LET x == k % cel.Width
             y == k \div cel.Width
             bpp == BytesPerPixel(colorDepth)
             pixelIndex == (y * cel.Width + x) * bpp
             imgX == cel.X + x
             imgY == cel.Y + y
         IN  IF pixelIndex + bpp > Len(cel.Pixels)
             THEN drawPixels(img, cel, colorDepth, k + 1)
             ELSE IF InBounds(img, imgX, imgY)
             THEN drawPixels(
                    [img EXCEPT !.Pix[<<imgX, imgY>>] =
                       ApplyOpacity(SourceColor(cel.Pixels, pixelIndex, colorDepth),
                                    cel.Opacity)],
                    cel, colorDepth, k + 1)
             ELSE drawPixels(img, cel, colorDepth, k + 1)

\* [err, img]: the image after the cel is drawn; unchanged on error.
drawCelToImage(img, cel, colorDepth) ==
    IF Len(cel.Pixels) = 0 THEN [err |-> "no pixel data", img |-> img]
    ELSE [err |-> "nil", img |-> drawPixels(img, cel, colorDepth, 0)]

\* ---------------------------------------------------------- GetFrameImage

\* A variant of drawChunks that stops at the first cel that fails.
RECURSIVE drawChunksStop(_, _, _, _)
drawChunksStop(img, chunks, j, colorDepth) ==
    IF j > Len(chunks) THEN img
    ELSE IF chunks[j].Type = CelChunkType
    THEN LET c == parseCelChunk(chunks[j].Data) IN
         IF c.err # "nil" THEN img
         ELSE drawChunksStop(drawCelToImage(img, c.cel, colorDepth).img,
                             chunks, j + 1, colorDepth)
    ELSE drawChunksStop(img, chunks, j + 1, colorDepth)

\* A variant of drawChunks that decodes every chunk as a cel, whatever
\* its type.
RECURSIVE drawChunksAnyType(_, _, _, _)
drawChunksAnyType(img, chunks, j, colorDepth) ==
    IF j > Len(chunks) THEN img
    ELSE LET c == parseCelChunk(chunks[j].Data) IN
         IF c.err # "nil" THEN drawChunksAnyType(img, chunks, j + 1, colorDepth)
         ELSE drawChunksAnyType(drawCelToImage(img, c.cel, colorDepth).img,
                                chunks, j + 1, colorDepth)

\* The loop over a frame's chunks from chunk j on, drawing onto img.
RECURSIVE drawChunks(_, _, _, _)
drawChunks(img, chunks, j, colorDepth) ==
    IF j > Len(chunks) THEN img
    ELSE IF chunks[j].Type = CelChunkType
    THEN LET c == parseCelChunk(chunks[j].Data) IN
         IF c.err # "nil" THEN drawChunks(img, chunks, j + 1, colorDepth)
         ELSE drawChunks(drawCelToImage(img, c.cel, colorDepth).img,
                         chunks, j + 1, colorDepth)
    ELSE drawChunks(img, chunks, j + 1, colorDepth)

\* A variant of GetFrameImage whose range test lets the index len(f.Frames)
\* through to the indexing of f.Frames.
GetFrameImageOffByOne(f, frameIndex) ==
    IF frameIndex > Len(f.Frames)
    THEN [out |-> "error", img |-> <<>>, read |-> 0]
    ELSE IF frameIndex < 0 \/ frameIndex = Len(f.Frames)
    THEN [out |-> "panic", img |-> <<>>, read |-> 0]
    ELSE [out |-> "ok",
          img |-> << drawChunks(NewRGBA(f.Header.Width, f.Header.Height),
                                f.Frames[frameIndex + 1][1].Chunks, 1,
                                f.Header.ColorDepth) >>,
          read |-> Len(f.Frames[frameIndex + 1][1].Chunks)]

\* f.GetFrameImage(frameIndex): [out, img, read].  out is "ok" (an image and
\* a nil error), "error" (no image) or "panic" (an index out of range of
\* f.Frames); img is <<the image>> or <<>>; read is the number of chunks of
\* the frame the call looked at.
GetFrameImage(f, frameIndex) ==
    IF frameIndex >= Len(f.Frames)
    THEN [out |-> "error", img |-> <<>>, read |-> 0]
    ELSE IF frameIndex < 0
    THEN [out |-> "panic", img |-> <<>>, read |-> 0]
    ELSE LET frame == f.Frames[frameIndex + 1][1] IN
         [out |-> "ok",
          img |-> << drawChunks(NewRGBA(f.Header.Width, f.Header.Height),
                                frame.Chunks, 1, f.Header.ColorDepth) >>,
          read |-> Len(frame.Chunks)]

\* ------------------------------------------------- assembling input files
\* The byte layout of the format, used to assemble input buffers from
\* explicit field values.

U8(v) == <<v % 256>>
U16(v) == <<v % 256, (v \div 256) % 256>>
I16(v) == U16((v + 65536) % 65536)
U32(w) == U16(w.lo) \o U16(w.hi)

EncHeader(h) ==
    U32(h.FileSize) \o U16(h.MagicNumber) \o U16(h.Frames) \o U16(h.Width)
    \o U16(h.Height) \o U16(h.ColorDepth) \o U32(h.Flags) \o U16(h.Speed)
    \o Zeros(8) \o U8(h.Transparent) \o Zeros(3) \o U16(h.Colors)
    \o U8(h.PixelWidth) \o U8(h.PixelHeight) \o I16(h.GridX) \o I16(h.GridY)
    \o U16(h.GridWidth) \o U16(h.GridHeight) \o Zeros(84)

EncChunk(c) == U32(c.Size) \o U16(c.Type) \o c.Data

EncFrame(f) ==
    U32(f.Header.BytesInFrame) \o U16(f.Header.MagicNumber)
    \o U16(f.Header.OldChunks) \o U16(f.Header.Duration) \o Zeros(2)
    \o U32(f.Header.NewChunks)
    \o Flatten([j \in 1 .. Len(f.Chunks) |-> EncChunk(f.Chunks[j])])

EncFile(h, frames) ==
    EncHeader(h) \o Flatten([j \in 1 .. Len(frames) |-> EncFrame(frames[j])])

EncTag(t) ==
    U16(t.FromFrame) \o U16(t.ToFrame) \o U8(t.Direction) \o U16(t.Repeat)
    \o Zeros(6) \o t.Color \o Zeros(1) \o U16(Len(t.Name)) \o t.Name

\* A Tags payload that declares n records and holds those of tags.
EncTags(n, tags) ==
    U16(n) \o Zeros(8) \o Flatten([j \in 1 .. Len(tags) |-> EncTag(tags[j])])

\* A zlib stream holding px in one stored block.
EncZlib(px) ==
    <<120, 1>> \o <<1>> \o U16(Len(px)) \o U16(65535 - Len(px)) \o px
    \o <<Adler32(px).b \div 256, Adler32(px).b % 256,
         Adler32(px).a \div 256, Adler32(px).a % 256>>

\* The fields every cel payload starts with.
EncCelPrefix(c) ==
    U16(c.LayerIndex) \o I16(c.X) \o I16(c.Y) \o U8(c.Opacity) \o U16(c.Type)
    \o I16(c.ZIndex) \o Zeros(5)

\* The payload of a compressed-image cel.
EncCel(c) == EncCelPrefix(c) \o U16(c.Width) \o U16(c.Height) \o EncZlib(c.Pixels)

\* A chunk whose declared size is that of its payload plus the prefix.
MkChunk(type, payload) ==
    [Size |-> W32(6 + Len(payload)), Type |-> type, Data |-> payload]

\* ------------------------------------------------------- generated inputs
\* An input is described by the explicit values it is assembled from:
\* [hdr, frames, cut] stands for the first cut bytes of EncFile(hdr, frames).

\* A chunk type ParseFile and GetFrameImage do not interpret (a layer chunk).
UnknownChunkType == CelChunkType - 1
BadMagics == {0, 57509}

MkHeader(magic, n, depth, size) ==
    [FileSize |-> W32(size), MagicNumber |-> magic, Frames |-> n,
     Width |-> 2, Height |-> 2, ColorDepth |-> depth, Flags |-> W32(1),
     Speed |-> 125, Transparent |-> 3, Colors |-> 32, PixelWidth |-> 1,
     PixelHeight |-> 2, GridX |-> -4, GridY |-> 5, GridWidth |-> 16,
     GridHeight |-> 24]

RECURSIVE SumSizes(_, _)
SumSizes(chunks, j) ==
    IF j > Len(chunks) THEN 0
    ELSE (W32Int(chunks[j].Size) % Huge) + SumSizes(chunks, j + 1)

\* How a frame header states its number of chunks k: in the old field
\* alone, in both fields, or in the new field with a different old one.
CountModes == {"legacy", "both", "decoy"}

MkFrame(chunks, mode) ==
    LET k == Len(chunks) IN
    [Header |-> [BytesInFrame |-> W32(16 + SumSizes(chunks, 1)),
                 MagicNumber |-> 61946,
                 OldChunks |-> IF mode = "decoy" /\ k > 0 THEN k + 1 ELSE k,
                 Duration |-> 100,
                 NewChunks |-> IF mode = "legacy" THEN W32Zero ELSE W32(k)],
     Chunks |-> chunks]

\* The sequences of at most MaxChunks chunks of a pool.
ChunkSeqs(pool) == UNION { [1 .. c -> pool] : c \in 0 .. MaxChunks }

\* The ways to end n frames within c chunks: b[i] is the last chunk of frame i.
FrameEnds(c, n) ==
    { b \in [1 .. n -> 0 .. c] :
        /\ n > 0 => b[n] = c
        /\ \A i \in 1 .. n - 1 : b[i] <= b[i + 1] }

\* The chunk sequence cs split into n frames at the ends b.
SplitFrames(cs, b, n, mode) ==
    [i \in 1 .. n |->
        MkFrame(SubSeq(cs, (IF i = 1 THEN 0 ELSE b[i - 1]) + 1, b[i]), mode)]

\* Every way to lay the chunk sequences css out in at most MaxFrames frames.
Layouts(css, modes) ==
    UNION { { SplitFrames(cs, b, Len(b), mode) :
                mode \in modes,
                b \in UNION { FrameEnds(Len(cs), n) : n \in 1 .. MaxFrames } } :
            cs \in css }
    \cup {<<>>}

FileLen(frames) == Len(EncFile(MkHeader(0, 0, 0, 0), frames))

\* The length of a whole header.
HeaderSize == FileLen(<<>>)

MkInput(magic, n, depth, frames, cut) ==
    [hdr |-> MkHeader(magic, n, depth, FileLen(frames)), frames |-> frames,
     cut |-> cut]

InputBytes(in) == Take(EncFile(in.hdr, in.frames), in.cut)

UnknownChunk == MkChunk(UnknownChunkType, <<7>>)

\* A chunk that declares a size below that of its own prefix.
ShortChunk(size) == [Size |-> W32(size), Type |-> UnknownChunkType, Data |-> <<>>]

\* Headers cut at every length, with and without the magic number.
HeaderCutInputs ==
    { MkInput(m, n, 32, <<>>, cut) :
        m \in {AseMagic} \cup BadMagics, n \in 0 .. MaxFrames,
        cut \in 0 .. HeaderSize }

\* The frame counts a header may declare for a file of k frames: all of
\* them, or one fewer (the last frame is then trailing data).
Declared(k) == {k} \cup (IF k > 0 THEN {k - 1} ELSE {})

\* Whole files, with a good or a bad magic number.
WholeInputs ==
    UNION { { MkInput(m, n, 32, fs, FileLen(fs)) :
                m \in {AseMagic} \cup BadMagics, n \in Declared(Len(fs)) } :
            fs \in Layouts(ChunkSeqs({UnknownChunk}), CountModes) }

\* Files with a good magic number cut at every length past the header.
BodyCutInputs ==
    UNION { { MkInput(AseMagic, Len(fs), 32, fs, cut) :
                cut \in HeaderSize .. FileLen(fs) - 1 } :
            fs \in Layouts(ChunkSeqs({UnknownChunk}), {"legacy", "both"}) }

\* One frame holding a chunk of declared size 0..5, alone or between
\* well-formed chunks, and one frame declaring 2^32 - 65536 chunks.
ShortChunkInputs ==
    { MkInput(AseMagic, 1, 32,
              << MkFrame(pre \o <<ShortChunk(size)>> \o post, "both") >>,
              FileLen(<< MkFrame(pre \o <<ShortChunk(size)>> \o post, "both") >>)) :
        size \in 0 .. 5, pre \in {<<>>, <<UnknownChunk>>},
        post \in {<<>>, <<UnknownChunk>>} }
    \cup
    { MkInput(AseMagic, 1, 32,
              << [MkFrame(<<UnknownChunk>>, "both") EXCEPT
                    !.Header.NewChunks = [lo |-> 0, hi |-> 65535]] >>,
              HeaderSize + 16 + 7) }

\* ---- tags

\* The j-th tag record of a generated Tags chunk.
TagRec(j) ==
    [Name |-> [i \in 1 .. j |-> 96 + i], FromFrame |-> 3 - j, ToFrame |-> j,
     Direction |-> j % 4, Repeat |-> j - 1, Color |-> <<j, 10 + j, 20 + j>>]

AllTags == [j \in 1 .. MaxTags |-> TagRec(j)]
LastTag == << TagRec(MaxTags) >>

\* Tags chunks that parse, and their tags.
TagsAllChunk == MkChunk(TagsChunkType, EncTags(MaxTags, AllTags))
TagsLastChunk == MkChunk(TagsChunkType, EncTags(1, LastTag))
TagsNoneChunk == MkChunk(TagsChunkType, EncTags(0, <<>>))

\* Tags chunks whose payload ends early: one declares a record more than
\* it holds, one ends inside the name of its last record.
TagsShortChunk == MkChunk(TagsChunkType, EncTags(MaxTags + 1, AllTags))
TagsCutChunk ==
    MkChunk(TagsChunkType,
            Take(EncTags(MaxTags, AllTags), Len(EncTags(MaxTags, AllTags)) - 1))

GoodTagsChunks == {TagsAllChunk, TagsLastChunk}
BadTagsChunks == {TagsShortChunk, TagsCutChunk}

TagsInputs ==
    UNION { { MkInput(AseMagic, Len(fs), 32, fs, FileLen(fs)) } :
            fs \in Layouts(ChunkSeqs(GoodTagsChunks \cup BadTagsChunks
                                       \cup {UnknownChunk}), {"both"})
                   \cup Layouts(ChunkSeqs({TagsNoneChunk, TagsLastChunk}),
                                {"legacy"}) }

\* ---- cels

\* Two compressed cels that overlap at <<1, 0>> of the 2 by 2 canvas.
CelA == [LayerIndex |-> 0, X |-> 0, Y |-> 0, Opacity |-> 255,
         Type |-> CelCompressed, ZIndex |-> 0, Width |-> 2, Height |-> 1,
         Pixels |-> <<200, 10, 20, 255, 201, 11, 21, 255>>]
CelB == [LayerIndex |-> 1, X |-> 1, Y |-> 0, Opacity |-> 128,
         Type |-> CelCompressed, ZIndex |-> 0, Width |-> 1, Height |-> 2,
         Pixels |-> <<30, 40, 250, 255, 31, 41, 251, 100>>]

CelAChunk == MkChunk(CelChunkType, EncCel(CelA))
CelBChunk == MkChunk(CelChunkType, EncCel(CelB))
GoodCelChunks == {CelAChunk, CelBChunk}

\* Cel chunks parseCelChunk rejects: a raw cel, a linked cel, an unknown
\* cel type, a payload that ends inside the fixed fields, one that ends
\* inside the image size, a stream with a wrong checksum and a stream cut
\* short.
CelOfType(t) ==
    MkChunk(CelChunkType, EncCelPrefix([CelA EXCEPT !.Type = t]) \o <<1, 0, 1, 0>>)
CelCutFields == MkChunk(CelChunkType, Take(EncCel(CelA), 8))
CelCutSize == MkChunk(CelChunkType, Take(EncCel(CelA), 18))
CelBadChecksum ==
    MkChunk(CelChunkType,
            Take(EncCel(CelA), Len(EncCel(CelA)) - 1) \o <<(Adler32(CelA.Pixels).a + 1) % 256>>)
CelCutStream == MkChunk(CelChunkType, Take(EncCel(CelA), Len(EncCel(CelA)) - 5))

BadCelChunks ==
    {CelOfType(0), CelOfType(1), CelOfType(3), CelCutFields, CelCutSize,
     CelBadChecksum, CelCutStream}

\* The chunk sequences of good cels with at most one rejected cel among
\* them, at any place.
CelChunkSeqs ==
    ChunkSeqs(GoodCelChunks)
    \cup UNION { { SubSeq(cs, 1, k) \o <<bad>> \o SubSeq(cs, k + 1, Len(cs)) :
                     k \in 0 .. Len(cs), bad \in BadCelChunks } :
                 cs \in UNION { [1 .. c -> GoodCelChunks] : c \in 0 .. MaxChunks - 1 } }

CelInputs ==
    { MkInput(AseMagic, Len(fs), 32, fs, FileLen(fs)) :
        fs \in Layouts(CelChunkSeqs, {"both"}) }

\* ---- cels on and off the canvas, at every colour depth

\* A cel over the first row whose first pixel is fully transparent, a cel
\* that starts above and left of the canvas, and one that runs past its
\* right and bottom edges.
CelClear == [LayerIndex |-> 2, X |-> 0, Y |-> 0, Opacity |-> 255,
             Type |-> CelCompressed, ZIndex |-> 0, Width |-> 2, Height |-> 1,
             Pixels |-> <<9, 8, 7, 0, 5, 6, 7, 255>>]
CelBefore == [LayerIndex |-> 3, X |-> -1, Y |-> -1, Opacity |-> 255,
              Type |-> CelCompressed, ZIndex |-> 0, Width |-> 2, Height |-> 2,
              Pixels |-> <<50, 51, 52, 53, 60, 61, 62, 63,
                           70, 71, 72, 73, 80, 81, 82, 83>>]
CelPast == [LayerIndex |-> 4, X |-> 1, Y |-> 1, Opacity |-> 200,
            Type |-> CelCompressed, ZIndex |-> 0, Width |-> 2, Height |-> 2,
            Pixels |-> <<90, 91, 92, 255, 100, 101, 102, 103,
                         110, 111, 112, 113, 120, 121, 122, 123>>]

CanvasCels == <<CelA, CelB, CelClear, CelBefore, CelPast>>
CanvasCelChunks ==
    [i \in 1 .. Len(CanvasCels) |-> MkChunk(CelChunkType, EncCel(CanvasCels[i]))]
CanvasCelChunkSet == { CanvasCelChunks[i] : i \in 1 .. Len(CanvasCels) }

\* The colour depths a header states: the three the compositor knows, and
\* none, one bit, 24 bits and 64 bits.
Depths == {0, 1, 8, 16, 24, 32, 64}

\* One frame of cels, at every depth.
CanvasInputs ==
    { MkInput(AseMagic, 1, depth, << MkFrame(cs, "both") >>,
              FileLen(<< MkFrame(cs, "both") >>)) :
        depth \in Depths, cs \in ChunkSeqs(CanvasCelChunkSet) \ {<<>>} }

\* ---- whole files with values no reader of the format would write

\* Chunks of types 0 and 0xFFFF, a Tags chunk and a cel chunk of arbitrary
\* bytes.
OddChunks ==
    { MkChunk(0, <<>>), MkChunk(65535, <<1, 2, 3>>),
      MkChunk(TagsChunkType, <<2, 0, 255, 254, 253>>),
      MkChunk(CelChunkType, <<255, 255, 255>>) }

\* A frame header with a wrong magic number, byte length and duration.
OddFrame(f, magic, bytes) ==
    [f EXCEPT !.Header.MagicNumber = magic, !.Header.BytesInFrame = bytes,
              !.Header.Duration = 0]

\* The frame magic numbers and byte lengths, and the header's file sizes,
\* canvas sizes and depths the odd files state.
OddFrameValues ==
    << <<61946, W32(16)>>, <<0, W32Zero>>, <<65535, [lo |-> 65535, hi |-> 65535]>> >>
OddHeaderValues ==
    << [size |-> W32Zero, w |-> 0, h |-> 0, depth |-> 32],
       [size |-> [lo |-> 65535, hi |-> 65535], w |-> 3, h |-> 1, depth |-> 7],
       [size |-> W32(1), w |-> 1, h |-> 3, depth |-> 65535] >>

OddFrames(fs, fv) == [j \in 1 .. Len(fs) |-> OddFrame(fs[j], fv[1], fv[2])]

OddInput(fs, hv) ==
    [MkInput(AseMagic, Len(fs), hv.depth, fs, FileLen(fs)) EXCEPT
       !.hdr.FileSize = hv.size, !.hdr.Width = hv.w, !.hdr.Height = hv.h,
       !.hdr.Speed = 0, !.hdr.Colors = 0, !.hdr.Flags = W32Zero]

OddInputs ==
    { OddInput(OddFrames(fs, OddFrameValues[i]), OddHeaderValues[i]) :
        fs \in Layouts(ChunkSeqs(OddChunks), {"both"}) \ {<<>>},
        i \in 1 .. Len(OddHeaderValues) }

\* ---- cels whose pixel buffer ends early

\* A cel over the whole canvas, one of the same place and size whose buffer
\* ends inside its second pixel, and one whose buffer is empty.
CelFull == [LayerIndex |-> 0, X |-> 0, Y |-> 0, Opacity |-> 255,
            Type |-> CelCompressed, ZIndex |-> 0, Width |-> 2, Height |-> 2,
            Pixels |-> <<130, 131, 132, 255, 140, 141, 142, 255,
                         150, 151, 152, 255, 160, 161, 162, 255>>]
CelShort == [CelFull EXCEPT !.LayerIndex = 1, !.Pixels = <<210, 211, 212, 213, 220, 221>>]
CelEmpty == [CelFull EXCEPT !.LayerIndex = 2, !.Pixels = <<>>]

GapCels == <<CelFull, CelShort, CelEmpty>>
GapCelChunks == [i \in 1 .. Len(GapCels) |-> MkChunk(CelChunkType, EncCel(GapCels[i]))]

\* A cel chunk that ends inside its first fields.
CelStub == MkChunk(CelChunkType, <<1, 2, 3>>)

\* One frame of those cels and of a cel chunk that does not decode.
GapInputs ==
    { MkInput(AseMagic, 1, 32, << MkFrame(cs, "both") >>,
              FileLen(<< MkFrame(cs, "both") >>)) :
        cs \in ChunkSeqs({ GapCelChunks[i] : i \in 1 .. Len(GapCels) }
                         \cup {CelStub}) \ {<<>>} }

\* ---- chunks of other types with the payload of a cel or of tags

\* Type codes next to those of the cel and the tags chunk.
OtherTypes == {CelChunkType + 1, TagsChunkType - 1}

\* A chunk of another type with the payload of a cel, and one with the
\* payload of a Tags chunk.
OtherCel(t) == MkChunk(t, CelBChunk.Data)
OtherTags(t) == MkChunk(t, TagsAllChunk.Data)
OtherChunks == { OtherCel(t) : t \in OtherTypes } \cup { OtherTags(t) : t \in OtherTypes }

\* One frame of such chunks, of a cel and of a Tags chunk.
OtherInputs ==
    { MkInput(AseMagic, 1, 32, << MkFrame(cs, "both") >>,
              FileLen(<< MkFrame(cs, "both") >>)) :
        cs \in ChunkSeqs(OtherChunks \cup {CelAChunk, TagsLastChunk}) \ {<<>>} }

Inputs ==
    HeaderCutInputs \cup WholeInputs \cup BodyCutInputs \cup ShortChunkInputs
    \cup TagsInputs \cup CelInputs \cup CanvasInputs \cup OddInputs
    \cup GapInputs \cup OtherInputs

\* ---------------------------------------------------------------- the orc
\* orc.go.  Times are float64 seconds in the code, moved by 1.0 / 60.0 per
\* Update; here a timer holds the whole sixtieths of a second of its value.
\* float64(1.0 / 60.0) lies below 1/60, so a timer that was set to n
\* sixtieths and decreased n times is still above zero (3.0, 0.5 and 0.1
\* reach <= 0 at the 181st, 31st and 7th decrease), and a timer increased
\* from 0 six times is still below 0.1: "<= 0" is "< 0" on the sixtieths and
\* ">= frameDuration" is "> FrameDuration".
\* positionX is not part of the state: how it compares with playerX and
\* attackerX is an input of Update and TakeDamage.

\* Sixtieths of a second: frameDuration 0.1, hurtTimer 0.5, deathTimer 3.0,
\* flashTimer 0.1.
FrameDuration == 6
HurtTime == 30
DeathDelay == 180
FlashPeriod == 6

\* if o.flashCount >= 6
FlashLimit == 6

\* health and maxHealth of a new orc.
OrcHealth == 3

\* o.knockbackX = 30, held in thousandths.
KnockbackSpeed == 30
Milli == 1000

\* t <= 0 and t >= d on timers.
TimerDone(t) == t < 0
TimerReached(t, d) == t > d

OrcStates == {"Idle", "Walk", "Attack01", "Attack02", "Hurt", "Death"}

\* The frame ranges initializeAnimationRanges takes from the tags of the
\* sprite file, and the number of frames of the file: a file with all six
\* tags, and one with no tag, whose ranges stay zero.
OrcTagged ==
    [idleFrameStart |-> 0, idleFrameEnd |-> 1, walkFrameStart |-> 2,
     walkFrameEnd |-> 3, attack01FrameStart |-> 4, attack01FrameEnd |-> 5,
     attack02FrameStart |-> 6, attack02FrameEnd |-> 7, hurtFrameStart |-> 8,
     hurtFrameEnd |-> 9, deathFrameStart |-> 10, deathFrameEnd |-> 12,
     frames |-> 12]
OrcUntagged ==
    [idleFrameStart |-> 0, idleFrameEnd |-> 0, walkFrameStart |-> 0,
     walkFrameEnd |-> 0, attack01FrameStart |-> 0, attack01FrameEnd |-> 0,
     attack02FrameStart |-> 0, attack02FrameEnd |-> 0, hurtFrameStart |-> 0,
     hurtFrameEnd |-> 0, deathFrameStart |-> 0, deathFrameEnd |-> 0,
     frames |-> 1]
OrcRanges == {OrcTagged, OrcUntagged}

\* NewOrc: sprite is the index of the frame the sprite image shows.
NewOrc(ranges) ==
    [sprite |-> 0, ranges |-> ranges, facingLeft |-> FALSE,
     currentFrame |-> ranges.walkFrameStart, frameTimer |-> 0,
     state |-> "Walk", health |-> OrcHealth, maxHealth |-> OrcHealth,
     hurtTimer |-> 0, knockbackX |-> 0, deathTimer |-> 0, flashTimer |-> 0,
     flashVisible |-> TRUE, flashCount |-> 0, shouldRemove |-> FALSE]

\* The first frame of the animation of a state.
StartFrame(ranges, state) ==
    CASE state = "Idle" -> ranges.idleFrameStart
      [] state = "Walk" -> ranges.walkFrameStart
      [] state = "Attack01" -> ranges.attack01FrameStart
      [] state = "Attack02" -> ranges.attack02FrameStart
      [] state = "Hurt" -> ranges.hurtFrameStart
      [] state = "Death" -> ranges.deathFrameStart

setState(o, newState) ==
    IF o.state = newState THEN o
    ELSE [o EXCEPT !.state = newState, !.frameTimer = 0,
                   !.currentFrame = StartFrame(o.ranges, newState)]

\* A variant of updateHurt that runs its timer in every state.
updateHurtAnyState(o) ==
    LET h == [o EXCEPT !.hurtTimer = @ - 1] IN
    IF TimerDone(h.hurtTimer) THEN setState(h, "Walk") ELSE h

\* A variant of updateHurt that leaves the Hurt state for Idle.
updateHurtToIdle(o) ==
    IF o.state # "Hurt" THEN o
    ELSE LET h == [o EXCEPT !.hurtTimer = @ - 1] IN
         IF TimerDone(h.hurtTimer) THEN setState(h, "Idle") ELSE h

\* Update: the hurt timer.
updateHurt(o) ==
    IF o.state # "Hurt" THEN o
    ELSE LET h == [o EXCEPT !.hurtTimer = @ - 1] IN
         IF TimerDone(h.hurtTimer) THEN setState(h, "Walk") ELSE h

\* Update: the flashing, once the death timer has run out.
flashStep(o) ==
    LET f == [o EXCEPT !.flashTimer = @ - 1] IN
    IF ~TimerDone(f.flashTimer) THEN f
    ELSE LET g == [f EXCEPT !.flashVisible = ~@, !.flashTimer = FlashPeriod,
                            !.flashCount = IF f.flashVisible THEN @ + 1 ELSE @]
         IN  IF g.flashCount >= FlashLimit THEN [g EXCEPT !.shouldRemove = TRUE]
             ELSE g

\* Update: the death sequence.
updateDeath(o) ==
    IF o.state # "Death" THEN o
    ELSE LET d == [o EXCEPT !.deathTimer = @ - 1] IN
         IF TimerDone(d.deathTimer) THEN flashStep(d) ELSE d

\* o.knockbackX *= 0.9, and 0 once within (-1, 1).
Decay(k) ==
    LET m == IF k >= 0 THEN (k * 9) \div 10 ELSE 0 - (((0 - k) * 9) \div 10) IN
    IF m > 0 - Milli /\ m < Milli THEN 0 ELSE m

updateKnockback(o) ==
    IF o.knockbackX = 0 THEN o ELSE [o EXCEPT !.knockbackX = Decay(@)]

\* Update: the chase; side tells where playerX is from o.positionX.
updateChase(o, side) ==
    IF o.state # "Walk" THEN o
    ELSE IF side = "right" THEN [o EXCEPT !.facingLeft = FALSE]
    ELSE IF side = "left" THEN [o EXCEPT !.facingLeft = TRUE]
    ELSE o

\* Update: the switch on the state after o.currentFrame++.
loopFrame(o) ==
    CASE o.state = "Idle" ->
           IF o.currentFrame > o.ranges.idleFrameEnd
           THEN [o EXCEPT !.currentFrame = o.ranges.idleFrameStart] ELSE o
      [] o.state = "Walk" ->
           IF o.currentFrame > o.ranges.walkFrameEnd
           THEN [o EXCEPT !.currentFrame = o.ranges.walkFrameStart] ELSE o
      [] o.state = "Attack01" ->
           IF o.currentFrame > o.ranges.attack01FrameEnd
           THEN setState(o, "Idle") ELSE o
      [] o.state = "Attack02" ->
           IF o.currentFrame > o.ranges.attack02FrameEnd
           THEN setState(o, "Idle") ELSE o
      [] o.state = "Hurt" ->
           IF o.currentFrame > o.ranges.hurtFrameEnd
           THEN [o EXCEPT !.currentFrame = o.ranges.hurtFrameStart] ELSE o
      [] o.state = "Death" ->
           IF o.currentFrame > o.ranges.deathFrameEnd
           THEN [o EXCEPT !.currentFrame = o.ranges.deathFrameEnd] ELSE o

\* Update: the sprite follows the current frame when the file has it.
updateSprite(o) ==
    IF o.currentFrame < o.ranges.frames
    THEN [o EXCEPT !.sprite = o.currentFrame] ELSE o

\* Update: the animation timer.
updateAnimation(o) ==
    LET t == [o EXCEPT !.frameTimer = @ + 1] IN
    IF ~TimerReached(t.frameTimer, FrameDuration) THEN t
    ELSE updateSprite(loopFrame([t EXCEPT !.frameTimer = 0, !.currentFrame = @ + 1]))

\* (o *Orc) Update(playerX)
OrcUpdate(o, side) ==
    updateAnimation(updateChase(updateKnockback(updateDeath(updateHurt(o))), side))

\* A variant of TakeDamage without the test of the state.
OrcTakeDamageAlways(o, attackerLeft) ==
    LET h == [o EXCEPT !.health = @ - 1] IN
    IF h.health <= 0
    THEN [setState(h, "Death") EXCEPT !.deathTimer = DeathDelay]
    ELSE [setState(h, "Hurt") EXCEPT
            !.hurtTimer = HurtTime,
            !.knockbackX = IF attackerLeft THEN KnockbackSpeed * Milli
                           ELSE 0 - KnockbackSpeed * Milli]

\* (o *Orc) TakeDamage(attackerX); attackerLeft is attackerX < o.positionX.
OrcTakeDamage(o, attackerLeft) ==
    IF o.state = "Hurt" \/ o.state = "Death" THEN o
    ELSE LET h == [o EXCEPT !.health = @ - 1] IN
         IF h.health <= 0
         THEN [setState(h, "Death") EXCEPT !.deathTimer = DeathDelay]
         ELSE [setState(h, "Hurt") EXCEPT
                 !.hurtTimer = HurtTime,
                 !.knockbackX = IF attackerLeft THEN KnockbackSpeed * Milli
                                ELSE 0 - KnockbackSpeed * Milli]

IsAlive(o) == o.state # "Death"
ShouldRemove(o) == o.shouldRemove
GetHealth(o) == o.health

\* --------------------------------------------------------------- the game
\* main.go and the Game methods.  The orcs' positionX is not part of the
\* state: for each orc, where the player is from it, whether the player's
\* attack range meets it and whether it meets the player are held beside it
\* in g.geom.
\* g.ids holds the number of each orc of g.orcs in spawning order and
\* g.counted the numbers of the orcs g.orcsKilled was increased for.

\* Sixtieths of a second: frameDuration 0.1, deathTimer 3.0, flashTimer 0.1,
\* spawnInterval 9.0 and its minimum 0.5.
PlayerFrameDuration == 6
PlayerDeathDelay == 180
PlayerFlashPeriod == 6
FirstSpawnInterval == 540
MinSpawnInterval == 30

\* if g.flashCount >= 6
PlayerFlashLimit == 6

\* g.playerHealth = 100.0 and g.playerHealth -= 10.0
PlayerHealth == 100
OrcDamage == 10

\* The frame ranges main sets when the sprite file has no tags, and a file
\* of as many frames.
\* screenWidth, game.walkSpeed and the push an orc gives the player.
ScreenWidth == 1536
PlayerWalkSpeed == 5
PlayerKnockback == 100

\* -float64(screenWidth)/2 and float64(screenWidth)/2
LeftEdge == 0 - ScreenWidth \div 2
RightEdge == ScreenWidth \div 2

PlayerRanges ==
    [idleFrameStart |-> 0, idleFrameEnd |-> 0, walkFrameStart |-> 6,
     walkFrameEnd |-> 13, attackFrameStart |-> 14, attackFrameEnd |-> 19,
     hurtFrameStart |-> 20, hurtFrameEnd |-> 25, deathFrameStart |-> 26,
     deathFrameEnd |-> 31, frames |-> 32]

\* What lies beside an orc of g.orcs.  The first orc stands right of the
\* player; spawnOrc puts an orc left of the screen when len(g.orcs) is even
\* and right of it otherwise.
Geom(playerSide, reach, touch) ==
    [playerSide |-> playerSide, reach |-> reach, touch |-> touch]

\* g.spawnTimer >= g.spawnInterval, the interval in thousandths of a
\* sixtieth: the float64 sum of n times 1.0 / 60.0 reaches 9.0 at n = 540,
\* 9.0 * 0.95 at n = 513 and the next six intervals at the n this gives.
SpawnDue(t, interval) == t * Milli >= interval

\* main: the Game handed to ebiten.RunGame.
NewGame(keys, orcRanges, reach, touch) ==
    [keys |-> keys, orcRanges |-> orcRanges,
     currentFrame |-> PlayerRanges.idleFrameStart, frameTimer |-> 0,
     soldierSprite |-> 0, positionX |-> 0,
     isWalking |-> FALSE, facingLeft |-> FALSE,
     isAttacking |-> FALSE, playerState |-> "Alive",
     playerHealth |-> PlayerHealth, deathTimer |-> 0, flashTimer |-> 0,
     flashVisible |-> TRUE, flashCount |-> 0, orcsKilled |-> 0,
     spawnTimer |-> 0, spawnInterval |-> FirstSpawnInterval * Milli,
     orcs |-> << NewOrc(orcRanges) >>, geom |-> << Geom("left", reach, touch) >>,
     ids |-> <<1>>, spawned |-> 1, counted |-> <<>>, exited |-> FALSE,
     listed |-> <<>>, updated |-> <<>>]

\* spawnOrc; ok is whether NewOrc loaded the sprite file.
spawnOrc(g, ok, reach, touch) ==
    IF ~ok THEN g
    ELSE [g EXCEPT
            !.orcs = Append(@, NewOrc(g.orcRanges)),
            !.geom = Append(@, Geom(IF Len(g.orcs) % 2 = 0 THEN "right" ELSE "left",
                                    reach, touch)),
            !.ids = Append(@, g.spawned + 1),
            !.spawned = @ + 1,
            !.spawnInterval = IF (@ * 95) \div 100 < MinSpawnInterval * Milli
                              THEN MinSpawnInterval * Milli
                              ELSE (@ * 95) \div 100]

\* handlePlayerInput: the attack key.
handleAttackKey(g) ==
    IF g.keys.space /\ ~g.isAttacking /\ g.playerState = "Alive"
    THEN [g EXCEPT !.isAttacking = TRUE,
                   !.currentFrame = PlayerRanges.attackFrameStart,
                   !.frameTimer = 0]
    ELSE g

\* handlePlayerInput: a step to the left, kept on the screen.
stepLeft(x) ==
    IF x - PlayerWalkSpeed < LeftEdge THEN LeftEdge ELSE x - PlayerWalkSpeed

\* handlePlayerInput: a step to the right, kept on the screen.
stepRight(x) ==
    IF x + PlayerWalkSpeed > RightEdge THEN RightEdge ELSE x + PlayerWalkSpeed

\* handlePlayerInput: g.positionX after the movement keys.
walk(g) ==
    LET l == IF g.keys.left THEN stepLeft(g.positionX) ELSE g.positionX
    IN  IF g.keys.right THEN stepRight(l) ELSE l

\* A variant of handleMoveKeys that moves the player in any state.
handleMoveKeysAnyState(g) ==
    IF g.isAttacking THEN g
    ELSE LET walking == g.keys.left \/ g.keys.right
             m == [g EXCEPT !.isWalking = walking,
                            !.positionX = walk(g),
                            !.facingLeft = IF g.keys.right THEN FALSE
                                           ELSE IF g.keys.left THEN TRUE
                                           ELSE @]
         IN  IF walking = g.isWalking THEN m
             ELSE [m EXCEPT !.currentFrame = IF walking
                                             THEN PlayerRanges.walkFrameStart
                                             ELSE PlayerRanges.idleFrameStart,
                            !.frameTimer = 0]

\* handlePlayerInput: the movement keys.
handleMoveKeys(g) ==
    IF g.isAttacking \/ g.playerState # "Alive" THEN g
    ELSE LET walking == g.keys.left \/ g.keys.right
             m == [g EXCEPT !.isWalking = walking,
                            !.positionX = walk(g),
                            !.facingLeft = IF g.keys.right THEN FALSE
                                           ELSE IF g.keys.left THEN TRUE
                                           ELSE @]
         IN  IF walking = g.isWalking THEN m
             ELSE [m EXCEPT !.currentFrame = IF walking
                                             THEN PlayerRanges.walkFrameStart
                                             ELSE PlayerRanges.idleFrameStart,
                            !.frameTimer = 0]

handlePlayerInput(g) == handleMoveKeys(handleAttackKey(g))

\* updatePlayerAnimation: the branches after g.currentFrame++.
loopPlayerFrame(g) ==
    IF g.playerState = "Dying"
    THEN IF g.currentFrame > PlayerRanges.deathFrameEnd
         THEN [g EXCEPT !.currentFrame = PlayerRanges.deathFrameEnd] ELSE g
    ELSE IF g.playerState = "Hurt"
    THEN IF g.currentFrame > PlayerRanges.hurtFrameEnd
         THEN [g EXCEPT !.playerState = "Alive",
                        !.currentFrame = PlayerRanges.idleFrameStart]
         ELSE g
    ELSE IF g.isAttacking
    THEN IF g.currentFrame > PlayerRanges.attackFrameEnd
         THEN [g EXCEPT !.isAttacking = FALSE,
                        !.currentFrame = IF g.isWalking
                                         THEN PlayerRanges.walkFrameStart
                                         ELSE PlayerRanges.idleFrameStart]
         ELSE g
    ELSE IF g.isWalking
    THEN IF g.currentFrame > PlayerRanges.walkFrameEnd
         THEN [g EXCEPT !.currentFrame = PlayerRanges.walkFrameStart] ELSE g
    ELSE IF g.currentFrame > PlayerRanges.idleFrameEnd
         THEN [g EXCEPT !.currentFrame = PlayerRanges.idleFrameStart] ELSE g

updatePlayerSprite(g) ==
    IF g.currentFrame < PlayerRanges.frames
    THEN [g EXCEPT !.soldierSprite = g.currentFrame] ELSE g

updatePlayerAnimation(g) ==
    LET t == [g EXCEPT !.frameTimer = @ + 1] IN
    IF ~TimerReached(t.frameTimer, PlayerFrameDuration) THEN t
    ELSE updatePlayerSprite(
           loopPlayerFrame([t EXCEPT !.frameTimer = 0, !.currentFrame = @ + 1]))

\* updatePlayerDeath: the flashing; os.Exit(0) sets exited.
playerFlashStep(g) ==
    LET f == [g EXCEPT !.flashTimer = @ - 1] IN
    IF ~TimerDone(f.flashTimer) THEN f
    ELSE LET h == [f EXCEPT !.flashVisible = ~@, !.flashTimer = PlayerFlashPeriod,
                            !.flashCount = IF f.flashVisible THEN @ + 1 ELSE @]
         IN  IF h.flashCount >= PlayerFlashLimit THEN [h EXCEPT !.exited = TRUE]
             ELSE h

updatePlayerDeath(g) ==
    IF g.playerState # "Dying" THEN g
    ELSE LET d == [g EXCEPT !.deathTimer = @ - 1] IN
         IF TimerDone(d.deathTimer) THEN playerFlashStep(d) ELSE d

\* s without its i-th element.
Without(s, i) == SubSeq(s, 1, i - 1) \o SubSeq(s, i + 1, Len(s))

\* A variant of removeOrc that leaves the orc in g.orcs.
removeOrcKeep(g, i) ==
    [g EXCEPT !.orcsKilled = @ + 1,
              !.counted = Append(@, g.ids[i])]

\* updateOrcLogic: the orc of index i - 1 is counted and taken off g.orcs.
removeOrc(g, i) ==
    [g EXCEPT !.orcsKilled = @ + 1,
              !.counted = Append(@, g.ids[i]),
              !.orcs = Without(@, i),
              !.geom = Without(@, i),
              !.ids = Without(@, i)]

\* updateOrcLogic: the player takes damage from an orc.
playerHit(g) ==
    LET h == [g EXCEPT !.playerHealth = @ - OrcDamage] IN
    IF h.playerHealth <= 0
    THEN [h EXCEPT !.playerHealth = 0, !.playerState = "Dying",
                   !.currentFrame = PlayerRanges.deathFrameStart,
                   !.frameTimer = 0, !.deathTimer = PlayerDeathDelay,
                   !.isAttacking = FALSE, !.isWalking = FALSE]
    ELSE [h EXCEPT !.playerState = "Hurt",
                   !.currentFrame = PlayerRanges.hurtFrameStart,
                   !.frameTimer = 0,
                   !.isAttacking = FALSE, !.isWalking = FALSE]

\* A variant of knockback that does not keep the player on the screen.
knockbackUnbounded(g, i) ==
    [g EXCEPT !.positionX = IF g.geom[i].playerSide = "left"
                            THEN @ - PlayerKnockback
                            ELSE @ + PlayerKnockback]

\* updateOrcLogic: the player is pushed away from the orc of index i - 1
\* and kept on the screen.
knockback(g, i) ==
    LET x == IF g.geom[i].playerSide = "left"
             THEN g.positionX - PlayerKnockback
             ELSE g.positionX + PlayerKnockback
    IN  [g EXCEPT !.positionX = IF x < LeftEdge THEN LeftEdge
                                ELSE IF x > RightEdge THEN RightEdge
                                ELSE x]

\* updateOrcLogic: an orc after its Update and the player's attack on it.
attacked(g, i, o) ==
    IF g.isAttacking /\ IsAlive(o) /\ g.geom[i].reach
    THEN OrcTakeDamage(o, g.geom[i].playerSide = "left")
    ELSE o

\* A variant of updateOrcs that passes over the orcs that are not alive.
RECURSIVE updateOrcsAliveOnly(_, _)
updateOrcsAliveOnly(g, i) ==
    IF i < 1 THEN g
    ELSE IF ~IsAlive(g.orcs[i]) THEN updateOrcsAliveOnly(g, i - 1)
    ELSE LET o == OrcUpdate(g.orcs[i], g.geom[i].playerSide)
             u == [g EXCEPT !.updated = Append(@, g.ids[i])]
         IN
         IF ShouldRemove(o) THEN updateOrcsAliveOnly(removeOrc(u, i), i - 1)
         ELSE LET a == [u EXCEPT !.orcs[i] = attacked(u, i, o)] IN
              IF IsAlive(a.orcs[i]) /\ a.playerState = "Alive" /\ a.geom[i].touch
              THEN knockback(playerHit(a), i)
              ELSE updateOrcsAliveOnly(a, i - 1)

\* A variant of updateOrcs that lets an orc hit a Hurt player again.
RECURSIVE updateOrcsHurtToo(_, _)
updateOrcsHurtToo(g, i) ==
    IF i < 1 THEN g
    ELSE LET o == OrcUpdate(g.orcs[i], g.geom[i].playerSide)
             u == [g EXCEPT !.updated = Append(@, g.ids[i])]
         IN
         IF ShouldRemove(o) THEN updateOrcsHurtToo(removeOrc(u, i), i - 1)
         ELSE LET a == [u EXCEPT !.orcs[i] = attacked(u, i, o)] IN
              IF IsAlive(a.orcs[i]) /\ a.playerState # "Dying" /\ a.geom[i].touch
              THEN knockback(playerHit(a), i)
              ELSE updateOrcsHurtToo(a, i - 1)

\* A variant of updateOrcs that lets an orc hit the player in any state.
RECURSIVE updateOrcsAnyState(_, _)
updateOrcsAnyState(g, i) ==
    IF i < 1 THEN g
    ELSE LET o == OrcUpdate(g.orcs[i], g.geom[i].playerSide)
             u == [g EXCEPT !.updated = Append(@, g.ids[i])]
         IN
         IF ShouldRemove(o) THEN updateOrcsAnyState(removeOrc(u, i), i - 1)
         ELSE LET a == [u EXCEPT !.orcs[i] = attacked(u, i, o)] IN
              IF IsAlive(a.orcs[i]) /\ a.geom[i].touch
              THEN knockback(playerHit(a), i)
              ELSE updateOrcsAnyState(a, i - 1)

\* updateOrcLogic: the loop over g.orcs from its end, at the orc of index
\* i - 1.
RECURSIVE updateOrcs(_, _)
updateOrcs(g, i) ==
    IF i < 1 THEN g
    ELSE LET o == OrcUpdate(g.orcs[i], g.geom[i].playerSide)
             u == [g EXCEPT !.updated = Append(@, g.ids[i])]
         IN
         IF ShouldRemove(o) THEN updateOrcs(removeOrc(u, i), i - 1)
         ELSE LET a == [u EXCEPT !.orcs[i] = attacked(u, i, o)] IN
              IF IsAlive(a.orcs[i]) /\ a.playerState = "Alive" /\ a.geom[i].touch
              THEN knockback(playerHit(a), i)
              ELSE updateOrcs(a, i - 1)

\* updateOrcLogic: the spawn timer.
updateSpawn(g, ok, reach, touch) ==
    LET t == [g EXCEPT !.spawnTimer = @ + 1] IN
    IF SpawnDue(t.spawnTimer, t.spawnInterval)
    THEN [spawnOrc(t, ok, reach, touch) EXCEPT !.spawnTimer = 0]
    ELSE t

\* updateOrcLogic; listed is g.orcs as the loop finds it and updated the
\* orcs whose Update the loop has called, both by the orcs' numbers.
updateOrcLogic(g, ok, reach, touch) ==
    LET s == updateSpawn(g, ok, reach, touch) IN
    updateOrcs([s EXCEPT !.listed = s.ids, !.updated = <<>>], Len(s.orcs))

\* (g *Game) Update: the three player steps that come before
\* updateOrcLogic.
updatePlayer(g) ==
    updatePlayerDeath(updatePlayerAnimation(handlePlayerInput(g)))

\* (g *Game) Update
GameUpdate(g, ok, reach, touch) ==
    LET p == updatePlayer(g) IN
    IF p.exited THEN p ELSE updateOrcLogic(p, ok, reach, touch)

\* The chase of Orc.Update has brought every orc of g.orcs to the player:
\* CheckCollisionWithPlayer is true of each from now on.
closeIn(g) ==
    [g EXCEPT !.geom = [i \in 1 .. Len(g.geom) |-> [g.geom[i] EXCEPT !.touch = TRUE]]]

\* ------------------------------------------------------------------ state

VARIABLES
    input,    \* the explicit values the input buffer was assembled from
    data,     \* ParseFile's argument: the input buffer
    pc,       \* where ParseFile is: readHeader, checkMagic, readFrames,
              \* returned, panicked
    pos,      \* the offset of ParseFile's reader
    header,   \* <<the Header readHeader returned>>, or <<>>
    file,     \* <<the File ParseFile is filling>>, or <<>>
    fi,       \* the frame loop's index i
    ret,      \* what ParseFile returned: [file, err]
    calls,    \* the readChunk calls made so far
    gfi,      \* the last GetFrameImage call and its result
    blend,    \* an alpha, an opacity and the alpha the compositor makes of them
    th,       \* the GetFrameImage calls in progress side by side
    canvas,   \* the image each of those calls allocated
    orc,      \* an *Orc on its own
    last,     \* the last call on that orc and the orc before it
    game,     \* the *Game
    frame     \* the parity of the number of Update calls ebiten has made

play == <<orc, last, game, frame>>
aux == <<blend, th, canvas, play>>
vars == <<input, data, pc, pos, header, file, fi, ret, calls, gfi, aux>>

NoError == [stage |-> "none", cause |-> "nil"]
NoCall == [called |-> FALSE, index |-> 0, out |-> "none", img |-> <<>>, read |-> 0]

\* The indexes GetFrameImage is called with.
Indexes == -1 .. MaxFrames + 1

\* The calls of GetFrameImage that run side by side.
MaxCalls == 2
Threads == 1 .. MaxCalls

NoOrc == <<>>
NoOp == [op |-> "none", before |-> <<>>]
NoGame == <<>>
Idle == orc = NoOrc /\ last = NoOp /\ game = NoGame /\ frame = 0

NoBlend == [a |-> 0, o |-> 0, out |-> 0, done |-> FALSE]
IdleCall == [pc |-> "idle", index |-> 0, j |-> 0, out |-> "none", img |-> <<>>]
NoCalls == [t \in Threads |-> IdleCall]
NoCanvas == [t \in Threads |-> <<>>]

Init ==
    /\ input \in Inputs
    /\ data = InputBytes(input)
    /\ pc = "readHeader"
    /\ pos = 0
    /\ header = <<>>
    /\ file = <<>>
    /\ fi = 0
    /\ ret = [file |-> <<>>, err |-> NoError]
    /\ calls = <<>>
    /\ gfi = NoCall
    /\ blend = NoBlend
    /\ th = NoCalls
    /\ Idle
    /\ canvas = NoCanvas

\* A variant of Fail that hands out the File built so far with the error.
FailPartial(stage, cause) ==
    /\ ret' = [file |-> file, err |-> [stage |-> stage, cause |-> cause]]
    /\ pc' = "returned"

\* ParseFile returns (nil, err).
Fail(stage, cause) ==
    /\ ret' = [file |-> <<>>, err |-> [stage |-> stage, cause |-> cause]]
    /\ pc' = "returned"

\* header, err := readHeader(reader)
ReadHeader ==
    /\ pc = "readHeader"
    /\ LET r == readHeader(data) IN
       /\ pos' = r.pos
       /\ IF r.err # "nil"
          THEN Fail("header", r.err) /\ UNCHANGED header
          ELSE /\ header' = << r.val >>
               /\ pc' = "checkMagic"
               /\ UNCHANGED ret
    /\ UNCHANGED <<input, data, file, fi, calls, gfi, aux>>

\* A variant of MagicOK that accepts any magic number but zero.
MagicNonZero(h) == h.MagicNumber # 0

\* The magic number test, then file := &File{...}.
MagicOK(h) == h.MagicNumber = AseMagic

CheckMagic ==
    /\ pc = "checkMagic"
    /\ IF ~MagicOK(header[1])
       THEN Fail("magic", "invalid magic number") /\ UNCHANGED <<file, fi>>
       ELSE /\ file' = << [Header |-> header[1],
                           Frames |-> [j \in 1 .. header[1].Frames |-> <<>>],
                           Tags |-> <<>>] >>
            /\ fi' = 0
            /\ pc' = "readFrames"
            /\ UNCHANGED ret
    /\ UNCHANGED <<input, data, pos, header, calls, gfi, aux>>

\* A variant of ReadFrame that decodes the cel chunks of the frame it read
\* and fails on the first that does not decode.
ReadFrameEager ==
    /\ pc = "readFrames"
    /\ fi < header[1].Frames
    /\ \E allocOK \in BOOLEAN :
         LET r == readFrame(data, pos, allocOK) IN
         /\ pos' = r.pos
         /\ calls' = calls \o r.calls
         /\ IF r.panic
            THEN pc' = "panicked" /\ UNCHANGED <<file, fi, ret>>
            ELSE IF r.err # "nil"
            THEN Fail("frame", r.err) /\ UNCHANGED <<file, fi>>
            ELSE IF \E k \in 1 .. Len(r.frame[1].Chunks) :
                       /\ r.frame[1].Chunks[k].Type = CelChunkType
                       /\ parseCelChunk(r.frame[1].Chunks[k].Data).err # "nil"
            THEN Fail("frame", "cel") /\ UNCHANGED <<file, fi>>
            ELSE /\ file' = << [file[1] EXCEPT
                                  !.Frames[fi + 1] = r.frame,
                                  !.Tags = @ \o FrameTags(r.frame[1].Chunks, 1)] >>
                 /\ fi' = fi + 1
                 /\ UNCHANGED <<pc, ret>>
    /\ UNCHANGED <<input, data, header, gfi, aux>>

\* One turn of the loop over the frames: readFrame, then the frame's tags.
ReadFrame ==
    /\ pc = "readFrames"
    /\ fi < header[1].Frames
    /\ \E allocOK \in BOOLEAN :
         LET r == readFrame(data, pos, allocOK) IN
         /\ pos' = r.pos
         /\ calls' = calls \o r.calls
         /\ IF r.panic
            THEN pc' = "panicked" /\ UNCHANGED <<file, fi, ret>>
            ELSE IF r.err # "nil"
            THEN Fail("frame", r.err) /\ UNCHANGED <<file, fi>>
            ELSE /\ file' = << [file[1] EXCEPT
                                  !.Frames[fi + 1] = r.frame,
                                  !.Tags = @ \o FrameTags(r.frame[1].Chunks, 1)] >>
                 /\ fi' = fi + 1
                 /\ UNCHANGED <<pc, ret>>
    /\ UNCHANGED <<input, data, header, gfi, aux>>

\* A variant of Return that leaves the frame loop one frame early.
ReturnOneEarly ==
    /\ pc = "readFrames"
    /\ fi + 1 >= header[1].Frames
    /\ ret' = [file |-> file, err |-> NoError]
    /\ pc' = "returned"
    /\ UNCHANGED <<input, data, pos, header, file, fi, calls, gfi, aux>>

\* return file, nil
Return ==
    /\ pc = "readFrames"
    /\ fi >= header[1].Frames
    /\ ret' = [file |-> file, err |-> NoError]
    /\ pc' = "returned"
    /\ UNCHANGED <<input, data, pos, header, file, fi, calls, gfi, aux>>

\* A variant of CallGetFrameImage that empties the payloads of the chunks of
\* the frame it draws.
CallGetFrameImageDraining ==
    /\ pc = "returned"
    /\ ret.file # <<>>
    /\ \E index \in Indexes :
         LET r == GetFrameImage(ret.file[1], index) IN
         /\ gfi' = [called |-> TRUE, index |-> index, out |-> r.out,
                    img |-> r.img, read |-> r.read]
         /\ ret' = IF r.out = "ok"
                   THEN [ret EXCEPT !.file[1].Frames[index + 1][1].Chunks =
                           [j \in 1 .. Len(@) |-> [@[j] EXCEPT !.Data = <<>>]]]
                   ELSE ret
    /\ UNCHANGED <<input, data, pc, pos, header, file, fi, calls, aux>>

\* A call of GetFrameImage on the File ParseFile returned.
CallGetFrameImage ==
    /\ pc = "returned"
    /\ ret.file # <<>>
    /\ \E index \in Indexes :
         LET r == GetFrameImage(ret.file[1], index) IN
         gfi' = [called |-> TRUE, index |-> index, out |-> r.out,
                 img |-> r.img, read |-> r.read]
    /\ UNCHANGED <<input, data, pc, pos, header, file, fi, ret, calls, aux>>

Next == ReadHeader \/ CheckMagic \/ ReadFrame \/ Return \/ CallGetFrameImage

Spec == Init /\ [][Next]_vars

\* ------------------------------------- GetFrameImage calls side by side
\* Calls of GetFrameImage on one File, each advancing by one turn of its
\* loop over the chunks at a time, in any interleaving.

\* The files the calls share: one frame of cels on and off the canvas, or
\* two frames of a cel each, one of which may be a rejected one.
SharedInputs ==
    { in \in CanvasInputs : in.hdr.ColorDepth = 32 }
    \cup { in \in CelInputs :
             /\ Len(in.frames) = 2
             /\ \A j \in 1 .. 2 : Len(in.frames[j].Chunks) = 1 }

InitShared == Init /\ input \in SharedInputs

\* One turn of the loop over frame.Chunks.
drawChunk(img, chunk, colorDepth) == drawChunks(img, <<chunk>>, 1, colorDepth)

\* A variant of Canvas in which every call draws on the same image.
CanvasOfFirst(t) == 1

\* The image call t draws on: the one it allocated itself.
Canvas(t) == t

\* The range test, then frame := f.Frames[frameIndex] and img := NewRGBA.
BeginCall(t) ==
    /\ pc = "returned" /\ ret.file # <<>>
    /\ th[t].pc = "idle"
    /\ \E index \in Indexes :
         IF index >= Len(ret.file[1].Frames)
         THEN /\ th' = [th EXCEPT ![t] = [pc |-> "done", index |-> index, j |-> 0,
                                          out |-> "error", img |-> <<>>]]
              /\ UNCHANGED canvas
         ELSE IF index < 0
         THEN /\ th' = [th EXCEPT ![t] = [pc |-> "done", index |-> index, j |-> 0,
                                          out |-> "panic", img |-> <<>>]]
              /\ UNCHANGED canvas
         ELSE /\ th' = [th EXCEPT ![t] = [pc |-> "loop", index |-> index, j |-> 1,
                                          out |-> "none", img |-> <<>>]]
              /\ canvas' = [canvas EXCEPT ![Canvas(t)] =
                              << NewRGBA(ret.file[1].Header.Width,
                                         ret.file[1].Header.Height) >>]
    /\ UNCHANGED <<input, data, pc, pos, header, file, fi, ret, calls, gfi, blend,
                   play>>

\* The chunks of the frame call t looks at.
ChunksOf(t) == ret.file[1].Frames[th[t].index + 1][1].Chunks

\* One turn of call t's loop over the chunks.
StepCall(t) ==
    /\ th[t].pc = "loop"
    /\ th[t].j <= Len(ChunksOf(t))
    /\ canvas' = [canvas EXCEPT ![Canvas(t)] =
                    << drawChunk(canvas[Canvas(t)][1], ChunksOf(t)[th[t].j],
                                 ret.file[1].Header.ColorDepth) >>]
    /\ th' = [th EXCEPT ![t].j = @ + 1]
    /\ UNCHANGED <<input, data, pc, pos, header, file, fi, ret, calls, gfi, blend,
                   play>>

\* return img, nil
EndCall(t) ==
    /\ th[t].pc = "loop"
    /\ th[t].j > Len(ChunksOf(t))
    /\ th' = [th EXCEPT ![t].pc = "done", ![t].out = "ok",
                        ![t].img = canvas[Canvas(t)]]
    /\ UNCHANGED <<input, data, pc, pos, header, file, fi, ret, calls, gfi, blend,
                   canvas, play>>

NextShared ==
    \/ ReadHeader \/ CheckMagic \/ ReadFrame \/ Return
    \/ \E t \in Threads : BeginCall(t) \/ StepCall(t) \/ EndCall(t)

SpecShared == InitShared /\ [][NextShared]_vars

\* ----------------------------------------------- the opacity step alone

\* The values of a uint8.
Byte == 0 .. 255

\* No file is being parsed; a source alpha and a cel opacity are given.
InitAlpha ==
    /\ input = <<>> /\ data = <<>> /\ pc = "idle" /\ pos = 0
    /\ header = <<>> /\ file = <<>> /\ fi = 0
    /\ ret = [file |-> <<>>, err |-> NoError]
    /\ calls = <<>> /\ gfi = NoCall /\ th = NoCalls /\ canvas = NoCanvas
    /\ blend \in { [a |-> a, o |-> o, out |-> 0, done |-> FALSE] : a \in Byte, o \in Byte }
    /\ Idle

\* c.A = uint8((uint16(c.A) * uint16(cel.Opacity)) / 255) on a pixel of
\* alpha blend.a of a cel of opacity blend.o.
ScaleOnePixel ==
    /\ ~blend.done
    /\ blend' = [blend EXCEPT
                   !.out = ApplyOpacity(<<1, 2, 3, blend.a>>, blend.o)[4],
                   !.done = TRUE]
    /\ UNCHANGED <<input, data, pc, pos, header, file, fi, ret, calls, gfi,
                   th, canvas, play>>

NextAlpha == ScaleOnePixel

SpecAlpha == InitAlpha /\ [][NextAlpha]_vars

\* ------------------------------------------------------- an orc on its own
\* Update and TakeDamage called in any order on an orc NewOrc returned.

\* The flashes after which the calls on the orc are followed no further.
MaxFlashes == 7

\* The decoder and the compositor at rest.
AtRest ==
    /\ input = <<>> /\ data = <<>> /\ pc = "idle" /\ pos = 0
    /\ header = <<>> /\ file = <<>> /\ fi = 0
    /\ ret = [file |-> <<>>, err |-> NoError]
    /\ calls = <<>> /\ gfi = NoCall /\ th = NoCalls /\ canvas = NoCanvas
    /\ blend = NoBlend

decoder == <<input, data, pc, pos, header, file, fi, ret, calls, gfi, blend, th, canvas>>

InitOrc ==
    /\ AtRest
    /\ orc \in { NewOrc(r) : r \in OrcRanges }
    /\ last = [op |-> "NewOrc", before |-> <<>>]
    /\ game = NoGame /\ frame = 0

CallUpdate ==
    /\ orc.flashCount < MaxFlashes
    /\ \E side \in {"left", "right", "same"} : orc' = OrcUpdate(orc, side)
    /\ last' = [op |-> "Update", before |-> <<orc>>]
    /\ UNCHANGED <<decoder, game, frame>>

CallTakeDamage ==
    /\ orc.flashCount < MaxFlashes
    /\ \E attackerLeft \in BOOLEAN : orc' = OrcTakeDamage(orc, attackerLeft)
    /\ last' = [op |-> "TakeDamage", before |-> <<orc>>]
    /\ UNCHANGED <<decoder, game, frame>>

NextOrc == CallUpdate \/ CallTakeDamage

SpecOrc == InitOrc /\ [][NextOrc]_vars

\* --------------------------------------------------------------- the game
\* ebiten calls Update sixty times a second until the process exits.  The
\* keys are held from the start to the end of a run.

\* The orcs of a run, the first included: NewOrc loads the sprite file for
\* that many orcs and fails from then on.
MaxOrcs == 2

Keys ==
    { [space |-> FALSE, left |-> FALSE, right |-> FALSE],
      [space |-> TRUE, left |-> FALSE, right |-> FALSE],
      [space |-> FALSE, left |-> TRUE, right |-> TRUE],
      [space |-> FALSE, left |-> TRUE, right |-> FALSE],
      [space |-> FALSE, left |-> FALSE, right |-> TRUE] }

InitGame ==
    /\ AtRest
    /\ orc = NoOrc /\ last = NoOp /\ frame = 0
    /\ game \in { NewGame(keys, r, reach, touch) :
                    keys \in Keys, r \in OrcRanges,
                    reach \in BOOLEAN, touch \in BOOLEAN }

\* The next Update spawns an orc.
SpawnNext == SpawnDue(game.spawnTimer + 1, game.spawnInterval)

\* ebiten.RunGame: the next call of Update, made unless the process exited.
NextFrame == ~game.exited /\ frame' = 1 - frame

\* By the time of a spawn the orcs of g.orcs have walked since the last
\* one, and they may all have come up to the player.
Tick ==
    /\ NextFrame
    /\ IF SpawnNext
       THEN \E g \in {game, closeIn(game)} :
               IF game.spawned < MaxOrcs
               THEN \E reach \in BOOLEAN, touch \in BOOLEAN :
                       game' = GameUpdate(g, TRUE, reach, touch)
               ELSE game' = GameUpdate(g, FALSE, FALSE, FALSE)
       ELSE game' = GameUpdate(game, FALSE, FALSE, FALSE)
    /\ UNCHANGED <<decoder, orc, last>>

NextGame == Tick

SpecGame == InitGame /\ [][NextGame]_vars

\* ebiten.RunGame calls Update again as long as the process runs.
SpecGameLive == SpecGame /\ WF_frame(NextFrame)

\* ============================================================ properties

\* The File ParseFile returned, when it returned one.
Returned == pc = "returned"
Succeeded == Returned /\ ret.file # <<>>
TheFile == ret.file[1]

\* The length of the input up to the end of the last frame its header
\* declares.
DeclaredLen(in) == FileLen(Take(in.frames, in.hdr.Frames))

\* ---- C1

\* C1 as stated: every buffer whose 16-bit value at bytes 4-5 is not 0xA5E0
\* makes ParseFile fail with the bad-magic error.
C1_BadMagicAlwaysReported ==
    (Returned /\ Len(data) >= 6 /\ LE16(data, 4) # AseMagic)
        => ret.err.stage = "magic"

\* C1 as amended: a buffer whose 16-bit value at bytes 4-5 is not 0xA5E0
\* never yields a File and no frame of it is ever read; ParseFile fails with
\* the bad-magic error when the header read succeeds and with the header
\* read's error otherwise.
C1_BadMagicFails ==
    (Len(data) >= 6 /\ LE16(data, 4) # AseMagic)
        => /\ pc \in {"readHeader", "checkMagic", "returned"}
           /\ file = <<>> /\ fi = 0 /\ calls = <<>> /\ pos <= HeaderSize
           /\ ret.file = <<>>
           /\ Returned =>
                ret.err = IF header # <<>>
                          THEN [stage |-> "magic", cause |-> "invalid magic number"]
                          ELSE [stage |-> "header", cause |-> readHeader(data).err]

\* A bad magic number was reported for a buffer that holds frames.
C1_Witness ==
    /\ Returned /\ ret.err.stage = "magic"
    /\ Len(data) > HeaderSize /\ input.hdr.Frames > 0

\* ---- C2

\* C2: when ParseFile succeeds on a header declaring N frames, the File has
\* exactly N frames, none of them nil, and the j-th is the j-th frame of
\* the input.
C2_ExactlyNFrames ==
    Succeeded =>
        /\ Len(TheFile.Frames) = input.hdr.Frames
        /\ TheFile.Header.Frames = input.hdr.Frames
        /\ \A j \in 1 .. Len(TheFile.Frames) :
             /\ TheFile.Frames[j] # <<>>
             /\ TheFile.Frames[j][1] = input.frames[j]

C2_Witness ==
    /\ Succeeded /\ input.hdr.Frames = MaxFrames
    /\ \E j \in 1 .. MaxFrames : Len(TheFile.Frames[j][1].Chunks) > 0

\* ---- C3

\* The input has a good header and ends before the end of the last frame
\* its header declares.
TruncatedInFrames(in) ==
    /\ in.hdr.MagicNumber = AseMagic
    /\ in.cut >= HeaderSize
    /\ in.cut < DeclaredLen(in) \/ in.hdr.Frames > Len(in.frames)

\* C3: an input that ends inside its declared frames never yields a File,
\* whole or partial: ParseFile returns only an end-of-input error of the
\* frame stage, and does not end any other way.
C3_TruncationIsFatal ==
    TruncatedInFrames(input) =>
        /\ ret.file = <<>>
        /\ pc # "panicked"
        /\ pc = "readFrames" => fi < header[1].Frames
        /\ Returned => /\ ret.err.stage = "frame"
                       /\ ret.err.cause \in {"EOF", "UnexpectedEOF"}

\* ParseFile failed on a truncated input after it had decoded a frame.
C3_Witness ==
    /\ TruncatedInFrames(input) /\ Returned /\ fi >= 1
    /\ file[1].Frames[1] # <<>> /\ ret.file = <<>>

\* ---- C4

\* C4: a buffer shorter than the 128-byte header makes the header read fail
\* with an end-of-input error, and yields no File.
C4_ShortHeaderFails ==
    (Len(data) < HeaderSize /\ pc # "readHeader")
        => /\ Returned
           /\ ret.err.stage = "header"
           /\ ret.err.cause \in {"EOF", "UnexpectedEOF"}
           /\ ret.file = <<>>

\* ---- C5

\* C5: a readChunk call that read a declared size below 6 fails with a
\* malformed-chunk error and derives no payload length from that size.
C5_ShortSizeRejected ==
    \A j \in 1 .. Len(calls) :
        (calls[j].sized /\ calls[j].size.hi = 0 /\ calls[j].size.lo < 6)
            => /\ calls[j].err = "malformed chunk"
               /\ ~calls[j].panic
               /\ calls[j].dataSize.hi = 0

\* ---- C6

\* The chunk count a frame header states: the new field when it is not
\* zero, the old field otherwise.
StatedChunks(fh) ==
    IF fh.NewChunks.lo # 0 \/ fh.NewChunks.hi # 0
    THEN W32Int(fh.NewChunks) ELSE fh.OldChunks

RECURSIVE SumStated(_, _)
SumStated(frames, n) ==
    IF n = 0 THEN 0 ELSE StatedChunks(frames[n].Header) + SumStated(frames, n - 1)

\* C6: every frame ParseFile has decoded holds as many chunks as its header
\* states by that rule, and they are the chunks of the input in stream
\* order; a successful ParseFile made exactly that many readChunk calls.
C6_ChunkCountRule ==
    /\ file # <<>> =>
         \A j \in 1 .. fi :
            /\ Len(file[1].Frames[j][1].Chunks) = StatedChunks(input.frames[j].Header)
            /\ file[1].Frames[j][1].Chunks = input.frames[j].Chunks
    /\ Succeeded => Len(calls) = SumStated(input.frames, input.hdr.Frames)

\* A decoded frame whose old count differs from its new count, and one
\* whose new count is zero, both with chunks.
C6_Witness ==
    /\ Succeeded /\ fi = 2
    /\ \E j \in 1 .. fi :
         LET h == TheFile.Frames[j][1].Header IN
         /\ h.NewChunks.lo > 0 /\ h.OldChunks # h.NewChunks.lo
         /\ Len(TheFile.Frames[j][1].Chunks) = h.NewChunks.lo

\* ---- C7

\* The tags a chunk of a generated input is assembled from.
ChunkTags(c) ==
    IF c = TagsAllChunk THEN AllTags
    ELSE IF c = TagsLastChunk THEN LastTag
    ELSE <<>>

FrameChunkTags(f) == Flatten([j \in 1 .. Len(f.Chunks) |-> ChunkTags(f.Chunks[j])])

\* The tags of the well-formed Tags chunks of the declared frames, in frame
\* order, then chunk order, then record order.
InputTags(in) == Flatten([j \in 1 .. in.hdr.Frames |-> FrameChunkTags(in.frames[j])])

\* C7: after a successful ParseFile, File.Tags is the concatenation of the
\* tag records of the well-formed Tags chunks in frame, chunk and record
\* order, each with the name and fields it was assembled from.
C7_TagsInOrder == Succeeded => TheFile.Tags = InputTags(input)

\* Tags of two chunks of different frames, the first ending with the tag
\* the second consists of.
C7_Witness ==
    /\ Succeeded
    /\ Len(TheFile.Tags) = MaxTags + 1
    /\ input.hdr.Frames = 2
    /\ input.frames[1].Chunks # <<>> /\ input.frames[2].Chunks # <<>>
    /\ Head(input.frames[1].Chunks) = TagsAllChunk

\* ---- C8

\* The Tags chunks of the declared frames whose payload ends early.
BadTagsIn(in) ==
    { <<j, k>> \in (1 .. in.hdr.Frames) \X (1 .. MaxChunks + 1) :
        /\ j <= Len(in.frames)
        /\ k <= Len(in.frames[j].Chunks)
        /\ in.frames[j].Chunks[k] \in BadTagsChunks }

\* C8: a Tags chunk whose payload ends before its declared records are
\* complete yields an error and no tag at all; ParseFile still succeeds on
\* a file holding such chunks, keeping all its frames and exactly as many
\* tags as its other Tags chunks hold.
C8_BadTagsChunkSkipped ==
    (Returned /\ input.cut = FileLen(input.frames) /\ BadTagsIn(input) # {})
        => /\ Succeeded
           /\ ret.err = NoError
           /\ \A c \in BadTagsChunks :
                /\ parseTagsChunk(c.Data).err # "nil"
                /\ parseTagsChunk(c.Data).tags = <<>>
           /\ \A j \in 1 .. input.hdr.Frames :
                TheFile.Frames[j] = << input.frames[j] >>
           /\ Len(TheFile.Tags) = Len(InputTags(input))

\* A file with a Tags chunk that ends early and tags of another chunk.
C8_Witness ==
    /\ Succeeded /\ BadTagsIn(input) # {} /\ TheFile.Tags # <<>>

\* ---- C9

\* C9: GetFrameImage with an index at or past the number of frames returns
\* an error and no image, does not panic and looks at no chunk.
C9_IndexPastEnd ==
    (gfi.called /\ gfi.index >= Len(TheFile.Frames))
        => gfi.out = "error" /\ gfi.img = <<>> /\ gfi.read = 0

\* The call with the index equal to the number of frames of a File that
\* has frames with chunks.
C9_Witness ==
    /\ gfi.called /\ gfi.index = Len(TheFile.Frames) /\ gfi.index > 0
    /\ TheFile.Frames[gfi.index][1].Chunks # <<>>

\* ---- C10

\* The cel a chunk of a generated input is assembled from.
IsGoodCel(c) == c \in GoodCelChunks
CelOf(c) == IF c = CelAChunk THEN CelA ELSE CelB

\* Whether the cel covers the canvas point, and the pixel it shows there
\* (32 bits per pixel).
Covers(cel, xy) ==
    /\ cel.X <= xy[1] /\ xy[1] < cel.X + cel.Width
    /\ cel.Y <= xy[2] /\ xy[2] < cel.Y + cel.Height

CelPixelAt(cel, xy) ==
    LET o == 4 * ((xy[2] - cel.Y) * cel.Width + (xy[1] - cel.X)) IN
    << cel.Pixels[o + 1], cel.Pixels[o + 2], cel.Pixels[o + 3],
       (cel.Pixels[o + 4] * cel.Opacity) \div 255 >>

\* The pixel a frame shows at xy: that of the last of chunks[1..k] that is
\* a good cel covering xy, transparent black when there is none.
RECURSIVE ShownAt(_, _, _)
ShownAt(chunks, k, xy) ==
    IF k = 0 THEN ZeroPixel
    ELSE IF IsGoodCel(chunks[k]) /\ Covers(CelOf(chunks[k]), xy)
    THEN CelPixelAt(CelOf(chunks[k]), xy)
    ELSE ShownAt(chunks, k - 1, xy)

\* The frame of the input holds a rejected cel chunk.
HasBadCel(f) == \E k \in 1 .. Len(f.Chunks) : f.Chunks[k] \in BadCelChunks

\* C10: GetFrameImage on a frame that holds a cel chunk that fails to
\* decode returns an image and no error, and the image shows every good
\* cel of the frame, whether before or after the failing one.
C10_BadCelSkipped ==
    (/\ gfi.called /\ 0 <= gfi.index /\ gfi.index < Len(TheFile.Frames)
     /\ HasBadCel(input.frames[gfi.index + 1]))
        => /\ gfi.out = "ok"
           /\ gfi.img # <<>>
           /\ gfi.img[1].W = input.hdr.Width /\ gfi.img[1].H = input.hdr.Height
           /\ \A xy \in DOMAIN gfi.img[1].Pix :
                gfi.img[1].Pix[xy] =
                    ShownAt(input.frames[gfi.index + 1].Chunks,
                            Len(input.frames[gfi.index + 1].Chunks), xy)

\* An image of a frame whose rejected cel is followed by a good one.
C10_Witness ==
    /\ gfi.called /\ gfi.out = "ok"
    /\ LET cs == input.frames[gfi.index + 1].Chunks IN
       /\ Len(cs) >= 2
       /\ cs[1] \in BadCelChunks /\ cs[2] = CelBChunk
       /\ gfi.img[1].Pix[<<1, 1>>] # ZeroPixel

\* ---- C11

\* The cel a chunk of a canvas input is assembled from.
CanvasCelOf(c) == CanvasCels[CHOOSE i \in 1 .. Len(CanvasCels) : CanvasCelChunks[i] = c]

\* The call looked at a frame of a canvas input and returned an image.
DrewCanvas == gfi.called /\ gfi.out = "ok" /\ input \in CanvasInputs
CanvasChunks == input.frames[gfi.index + 1].Chunks

\* Chunk k is the last of cs whose cel covers xy.
LastCover(cs, k, xy) ==
    /\ Covers(CanvasCelOf(cs[k]), xy)
    /\ \A l \in k + 1 .. Len(cs) : ~Covers(CanvasCelOf(cs[l]), xy)

\* C11: where two cels of a frame cover the same canvas point, the image
\* shows there the pixel of the later one in chunk order exactly as that cel
\* states it (its colour, its alpha scaled by its opacity), also when that
\* pixel is fully transparent; nothing of the earlier cel remains.
C11_LastCelWins ==
    (DrewCanvas /\ input.hdr.ColorDepth = 32)
        => \A xy \in DOMAIN gfi.img[1].Pix :
             \A k \in 1 .. Len(CanvasChunks) :
               (/\ LastCover(CanvasChunks, k, xy)
                /\ \E j \in 1 .. k - 1 : Covers(CanvasCelOf(CanvasChunks[j]), xy))
                   => gfi.img[1].Pix[xy] = CelPixelAt(CanvasCelOf(CanvasChunks[k]), xy)

\* An opaque pixel replaced by a fully transparent one of a later cel, next
\* to one replaced by an opaque one.
C11_Witness ==
    /\ DrewCanvas /\ input.hdr.ColorDepth = 32
    /\ CanvasChunks = << CanvasCelChunks[1], CanvasCelChunks[3] >>
    /\ gfi.img[1].Pix[<<0, 0>>] = <<9, 8, 7, 0>>
    /\ gfi.img[1].Pix[<<1, 0>>] = <<5, 6, 7, 255>>

\* ---- C12

\* C12: for every source alpha a and opacity o of 0..255 the alpha the
\* compositor writes is the integer quotient of a * o by 255; it is 0 for
\* a = 0 and 255 for a = o = 255, and the product a * o fits the 16 bits it
\* is computed in.
C12_AlphaScaled ==
    blend.done =>
        /\ blend.out = (blend.a * blend.o) \div 255
        /\ blend.a * blend.o < 65536
        /\ blend.a = 0 => blend.out = 0
        /\ (blend.a = 255 /\ blend.o = 255) => blend.out = 255
        /\ blend.out \in Byte

\* The quotient is rounded down: 200 * 128 / 255 = 100.39...
C12_Witness ==
    blend.done /\ blend.a = 200 /\ blend.o = 128 /\ blend.out = 100

\* ---- C13

\* The points of the canvas of the input's header.
CanvasPoints == (0 .. input.hdr.Width - 1) \X (0 .. input.hdr.Height - 1)

\* The canvas point the cel's pixel (x, y) is aimed at.
Target(cel, x, y) == <<cel.X + x, cel.Y + y>>

\* The pixel (x, y) of a 32-bit cel as the compositor writes it.
CelPixel(cel, x, y) ==
    << cel.Pixels[4 * (y * cel.Width + x) + 1], cel.Pixels[4 * (y * cel.Width + x) + 2],
       cel.Pixels[4 * (y * cel.Width + x) + 3],
       (cel.Pixels[4 * (y * cel.Width + x) + 4] * cel.Opacity) \div 255 >>

\* Some cel after chunk k of cs has a pixel aimed at xy.
CoveredLater(cs, k, xy) ==
    \E l \in k + 1 .. Len(cs) : Covers(CanvasCelOf(cs[l]), xy)

\* C13: the image has exactly the points of the canvas; a cel pixel aimed
\* at a point of the canvas is written there (and stays unless a later cel
\* covers the point), a cel pixel aimed outside is written nowhere: the
\* points no cel aims at stay empty.
C13_OnlyInBounds ==
    (DrewCanvas /\ input.hdr.ColorDepth = 32)
        => /\ DOMAIN gfi.img[1].Pix = CanvasPoints
           /\ \A k \in 1 .. Len(CanvasChunks) :
                \A x \in 0 .. CanvasCelOf(CanvasChunks[k]).Width - 1,
                   y \in 0 .. CanvasCelOf(CanvasChunks[k]).Height - 1 :
                   (/\ Target(CanvasCelOf(CanvasChunks[k]), x, y) \in CanvasPoints
                    /\ ~CoveredLater(CanvasChunks, k,
                                     Target(CanvasCelOf(CanvasChunks[k]), x, y)))
                       => gfi.img[1].Pix[Target(CanvasCelOf(CanvasChunks[k]), x, y)]
                            = CelPixel(CanvasCelOf(CanvasChunks[k]), x, y)
           /\ \A xy \in CanvasPoints :
                ~CoveredLater(CanvasChunks, 0, xy) => gfi.img[1].Pix[xy] = ZeroPixel

\* A cel that starts at (-1, -1) and one that runs past the far corner: of
\* each, the one pixel on the canvas is shown.
C13_Witness ==
    /\ DrewCanvas /\ input.hdr.ColorDepth = 32
    /\ CanvasChunks = << CanvasCelChunks[4], CanvasCelChunks[5] >>
    /\ gfi.img[1].Pix[<<0, 0>>] = <<80, 81, 82, 83>>
    /\ gfi.img[1].Pix[<<1, 1>>] = <<90, 91, 92, 200>>
    /\ gfi.img[1].Pix[<<1, 0>>] = ZeroPixel
    /\ gfi.img[1].Pix[<<0, 1>>] = ZeroPixel

\* ---- C14

\* C14: after any number of GetFrameImage calls, whatever their indexes
\* and outcomes, the File is the one ParseFile returned: its Header, every
\* Frame with every Chunk and payload, and its Tags are those decoded from
\* the input.
C14_FileUnchanged ==
    gfi.called =>
        /\ ret = [file |-> file, err |-> NoError]
        /\ TheFile.Header = input.hdr
        /\ Len(TheFile.Frames) = input.hdr.Frames
        /\ \A j \in 1 .. input.hdr.Frames : TheFile.Frames[j] = << input.frames[j] >>
        /\ TheFile.Tags = InputTags(input)

\* A call drew the cels of a frame of the File.
C14_Witness ==
    /\ gfi.called /\ gfi.out = "ok" /\ gfi.read > 0
    /\ \E xy \in DOMAIN gfi.img[1].Pix : gfi.img[1].Pix[xy] # ZeroPixel

\* ---- C15

\* What call t returned equals what the same call returns run alone.
SameAsAlone(t, alone) == th[t].out = alone.out /\ th[t].img = alone.img

\* C15: however the turns of the calls running side by side on one File are
\* interleaved, each call that has returned has returned the outcome and
\* the image of the same call run alone, and the File is still the one
\* ParseFile returned.
C15_CallsIndependent ==
    /\ \A t \in Threads :
         th[t].pc = "done" => SameAsAlone(t, GetFrameImage(TheFile, th[t].index))
    /\ (\E t \in Threads : th[t].pc # "idle") => ret = [file |-> file, err |-> NoError]

\* A call returned an image while another call, begun before on the same
\* frame, was between two turns of its loop.
C15_Witness ==
    /\ th[1].pc = "loop" /\ th[1].j = 2
    /\ th[2].pc = "done" /\ th[2].out = "ok" /\ th[2].index = th[1].index
    /\ Len(ChunksOf(1)) = 2
    /\ canvas[1] # canvas[2]

\* ---- C16

\* The colour the bytes at offset o of px state at a depth of 8, 16 or 32.
ColourAt(px, o, depth) ==
    IF depth = 32 THEN <<px[o + 1], px[o + 2], px[o + 3], px[o + 4]>>
    ELSE IF depth = 16 THEN <<px[o + 1], px[o + 1], px[o + 1], px[o + 2]>>
    ELSE <<px[o + 1], px[o + 1], px[o + 1], 255>>

\* The offset of the cel's pixel (x, y) at bpp bytes per pixel.
OffsetOf(cel, x, y, bpp) == (y * cel.Width + x) * bpp

\* The pixel (x, y) of the cel as the colour cl scaled by the cel's opacity.
Shown(cl, cel) == <<cl[1], cl[2], cl[3], (cl[4] * cel.Opacity) \div 255>>

\* The pixel (x, y) of chunk k of cs is aimed at the canvas and no later
\* cel aims at the same point.
Visible(cs, k, x, y) ==
    /\ Target(CanvasCelOf(cs[k]), x, y) \in CanvasPoints
    /\ ~CoveredLater(cs, k, Target(CanvasCelOf(cs[k]), x, y))

\* The pixel the image shows for pixel (x, y) of the cel.
ImageAt(cel, x, y) == gfi.img[1].Pix[Target(cel, x, y)]

\* C16: at a depth of 8, 16 or 32 the pixel (x, y) of a cel is read at
\* offset (y * width + x) * (depth / 8) and shows, with its alpha scaled by
\* the opacity, R, G, B, A from four bytes at depth 32, grey from the first
\* byte and alpha from the second at depth 16, grey from the byte and alpha
\* 255 at depth 8.
C16_ColourByDepth ==
    (DrewCanvas /\ input.hdr.ColorDepth \in {8, 16, 32})
        => \A k \in 1 .. Len(CanvasChunks) :
             \A x \in 0 .. CanvasCelOf(CanvasChunks[k]).Width - 1,
                y \in 0 .. CanvasCelOf(CanvasChunks[k]).Height - 1 :
                Visible(CanvasChunks, k, x, y)
                  => ImageAt(CanvasCelOf(CanvasChunks[k]), x, y)
                       = Shown(ColourAt(CanvasCelOf(CanvasChunks[k]).Pixels,
                                        OffsetOf(CanvasCelOf(CanvasChunks[k]), x, y,
                                                 input.hdr.ColorDepth \div 8),
                                        input.hdr.ColorDepth),
                               CanvasCelOf(CanvasChunks[k]))

\* The first row of a cel of bytes 200, 10, 20, 255, ... read as two 16-bit
\* pixels.
C16_Witness ==
    /\ DrewCanvas /\ input.hdr.ColorDepth = 16
    /\ CanvasChunks = << CanvasCelChunks[1] >>
    /\ gfi.img[1].Pix[<<0, 0>>] = <<200, 200, 200, 10>>
    /\ gfi.img[1].Pix[<<1, 0>>] = <<20, 20, 20, 255>>

\* ---- C17

\* C17: at a depth of 0 the compositor reads one byte per pixel and shows
\* each pixel as at depth 8: grey from the byte, alpha 255 scaled by the
\* opacity.
C17_DepthZeroAsIndexed ==
    (DrewCanvas /\ input.hdr.ColorDepth = 0)
        => \A k \in 1 .. Len(CanvasChunks) :
             \A x \in 0 .. CanvasCelOf(CanvasChunks[k]).Width - 1,
                y \in 0 .. CanvasCelOf(CanvasChunks[k]).Height - 1 :
                Visible(CanvasChunks, k, x, y)
                  => ImageAt(CanvasCelOf(CanvasChunks[k]), x, y)
                       = Shown(ColourAt(CanvasCelOf(CanvasChunks[k]).Pixels,
                                        OffsetOf(CanvasCelOf(CanvasChunks[k]), x, y, 1),
                                        8),
                               CanvasCelOf(CanvasChunks[k]))

\* ---- C18

\* C18: at a depth other than 8, 16 and 32 ParseFile succeeds, GetFrameImage
\* returns an image for every frame, and every pixel of the image is the
\* empty one, whatever the cels of the frame hold.
C18_OtherDepthsEmpty ==
    (input \in CanvasInputs /\ input.hdr.ColorDepth \notin {8, 16, 32})
        => /\ pc # "panicked"
           /\ Returned => Succeeded /\ ret.err = NoError
           /\ (gfi.called /\ 0 <= gfi.index /\ gfi.index < Len(TheFile.Frames))
                => /\ gfi.out = "ok"
                   /\ DOMAIN gfi.img[1].Pix = CanvasPoints
                   /\ \A xy \in CanvasPoints : gfi.img[1].Pix[xy] = ZeroPixel

\* An image of a frame of two cels at 24 bits per pixel.
C18_Witness ==
    /\ DrewCanvas /\ input.hdr.ColorDepth = 24
    /\ CanvasChunks = << CanvasCelChunks[1], CanvasCelChunks[2] >>
    /\ gfi.read = 2

\* ---- C19

\* The chunk declares a size below the 6 bytes of its own prefix.
ShortSized(c) == c.Size.hi = 0 /\ c.Size.lo < 6

\* The frame holds the chunks its header states, each of the size it
\* declares.
FrameFits(f) ==
    /\ StatedChunks(f.Header) = Len(f.Chunks)
    /\ \A k \in 1 .. Len(f.Chunks) :
         ShortSized(f.Chunks[k]) \/ f.Chunks[k].Size = W32(6 + Len(f.Chunks[k].Data))

\* The input holds every frame its header declares, whole.
Fits(in) ==
    /\ in.cut = FileLen(in.frames)
    /\ in.hdr.Frames <= Len(in.frames)
    /\ \A j \in 1 .. Min(in.hdr.Frames, Len(in.frames)) : FrameFits(in.frames[j])

\* A chunk of a declared frame declares a size below 6.
HasShortSized(in) ==
    \E j \in 1 .. Min(in.hdr.Frames, Len(in.frames)) :
        \E k \in 1 .. Len(in.frames[j].Chunks) : ShortSized(in.frames[j].Chunks[k])

\* ParseFile ended without a File.
Failed == pc = "panicked" \/ (Returned /\ ret.file = <<>>)

\* C19: on an input with a whole header and the magic number 0xA5E0,
\* ParseFile ends without a File only when the input does not hold every
\* declared frame and chunk whole or a chunk declares a size below 6;
\* whatever the file size, the canvas size, the depth, the frame magic
\* number and byte length, the chunk types and the payloads are, ParseFile
\* succeeds otherwise.
C19_OnlyTruncationFails ==
    (Len(data) >= HeaderSize /\ input.hdr.MagicNumber = AseMagic)
        => /\ Failed => ~Fits(input) \/ HasShortSized(input)
           /\ (Returned /\ ret.file = <<>>) => ret.err.stage = "frame"
           /\ (Returned /\ Fits(input) /\ ~HasShortSized(input))
                => Succeeded /\ ret.err = NoError

\* ParseFile succeeded on a file with a wrong file size, an unknown depth, a
\* wrong frame magic number and byte length and a Tags chunk of arbitrary
\* bytes.
C19_Witness ==
    /\ Succeeded /\ input \in OddInputs
    /\ TheFile.Header.FileSize = [lo |-> 65535, hi |-> 65535]
    /\ TheFile.Header.ColorDepth = 7
    /\ TheFile.Frames[1][1].Header.MagicNumber = 0
    /\ \E k \in 1 .. Len(TheFile.Frames[1][1].Chunks) :
         /\ TheFile.Frames[1][1].Chunks[k].Type = TagsChunkType
         /\ TheFile.Frames[1][1].Chunks[k].Data # <<>>

\* ---- C20

\* The offset at which the first n frames of the input end, or the end of
\* the buffer when it ends before.
EndOfFrames(n) == Min(FileLen(Take(input.frames, n)), Len(data))

\* The names of the fields of a tag.
TagFields == {"Name", "FromFrame", "ToFrame", "Direction", "Repeat", "Color"}

\* C20: what is decoded from a buffer assembled from explicit values has
\* those values field for field: the Header, then each frame's header and
\* each chunk's size, type and payload, then each tag of the Tags chunks;
\* the reader stands at the end of the header after readHeader and at the
\* end of each frame after readFrame, so that the reserved bytes are
\* skipped and nothing is read from a shifted offset.
C20_FieldsRoundTrip ==
    /\ header # <<>> => header[1] = input.hdr
    /\ pc = "checkMagic" => pos = EndOfFrames(0)
    /\ file # <<>> =>
         /\ file[1].Header = input.hdr
         /\ pc = "readFrames" => pos = EndOfFrames(fi)
         /\ \A j \in 1 .. fi :
              /\ file[1].Frames[j][1].Header = input.frames[j].Header
              /\ Len(file[1].Frames[j][1].Chunks) = Len(input.frames[j].Chunks)
              /\ \A k \in 1 .. Len(input.frames[j].Chunks) :
                   /\ file[1].Frames[j][1].Chunks[k].Size = input.frames[j].Chunks[k].Size
                   /\ file[1].Frames[j][1].Chunks[k].Type = input.frames[j].Chunks[k].Type
                   /\ file[1].Frames[j][1].Chunks[k].Data = input.frames[j].Chunks[k].Data
    /\ Succeeded =>
         /\ Len(TheFile.Tags) = Len(InputTags(input))
         /\ \A j \in 1 .. Len(TheFile.Tags) :
              /\ DOMAIN TheFile.Tags[j] = TagFields
              /\ \A f \in TagFields : TheFile.Tags[j][f] = InputTags(input)[j][f]

\* A frame of two chunks, the second a Tags chunk of several tags, decoded
\* from a header with a negative grid offset.
C20_Witness ==
    /\ Succeeded
    /\ TheFile.Header.GridX = -4 /\ TheFile.Header.Transparent = 3
    /\ Len(TheFile.Frames) = 1
    /\ TheFile.Frames[1][1].Chunks = << UnknownChunk, TagsAllChunk >>
    /\ TheFile.Frames[1][1].Header.Duration = 100
    /\ TheFile.Tags = AllTags /\ Len(AllTags) >= 2
    /\ TheFile.Tags[2].Name = <<97, 98>>

\* ---- C22

\* The readChunk call returned a chunk.
ReadOK(c) == c.err = "nil" /\ ~c.panic

\* The length of a frame header.
FrameHeaderSize == Len(EncFrame(MkFrame(<<>>, "both")))

\* C22: a readChunk call that returns a chunk started at a declared size of
\* at least 6 and leaves the reader that many bytes further, 6 for the
\* prefix and the rest for the payload; the next call starts right there,
\* or right after the frame headers read in between, one for each frame
\* that starts there; and the Data of every chunk of a decoded frame is 6
\* bytes shorter than its declared size.
C22_ChunkConsumesItsSize ==
    /\ \A i \in 1 .. Len(calls) :
         ReadOK(calls[i]) =>
            /\ calls[i].sized
            /\ LE32(data, calls[i].from) = calls[i].size
            /\ W32Int(calls[i].size) >= 6
            /\ W32Int(calls[i].dataSize) = W32Int(calls[i].size) - 6
            /\ calls[i].pos = calls[i].from + W32Int(calls[i].size)
            /\ i < Len(calls) =>
                 \E n \in 0 .. MaxFrames :
                    calls[i + 1].from = calls[i].pos + n * FrameHeaderSize
    /\ file # <<>> =>
         \A j \in 1 .. fi :
            \A k \in 1 .. Len(file[1].Frames[j][1].Chunks) :
               Len(file[1].Frames[j][1].Chunks[k].Data)
                 = W32Int(file[1].Frames[j][1].Chunks[k].Size) - 6

\* Two chunks of more than 6 bytes read one right after the other.
C22_Witness ==
    /\ Len(calls) >= 2
    /\ ReadOK(calls[1]) /\ ReadOK(calls[2])
    /\ W32Int(calls[1].size) > 6 /\ W32Int(calls[2].size) > 6
    /\ calls[2].from = calls[1].pos
    /\ calls[2].pos = Len(data)

\* ---- C23

\* Chunk c of a frame of cels with short buffers writes the canvas point xy:
\* it is a cel that decodes, covers xy and holds all four bytes of the
\* pixel aimed at xy.
WritesAt(c, xy) ==
    \E i \in 1 .. Len(GapCels) :
        /\ c = GapCelChunks[i]
        /\ Covers(GapCels[i], xy)
        /\ 4 * ((xy[2] - GapCels[i].Y) * GapCels[i].Width + (xy[1] - GapCels[i].X)) + 4
             <= Len(GapCels[i].Pixels)

\* The pixel chunk c writes at xy.
WrittenAt(c, xy) ==
    CelPixelAt(GapCels[CHOOSE i \in 1 .. Len(GapCels) : c = GapCelChunks[i]], xy)

\* The canvas point xy after chunks 1..k of cs: what chunk k writes there,
\* and what was there before chunk k when it writes nothing there.
RECURSIVE AfterChunk(_, _, _)
AfterChunk(cs, k, xy) ==
    IF k = 0 THEN ZeroPixel
    ELSE IF WritesAt(cs[k], xy) THEN WrittenAt(cs[k], xy)
    ELSE AfterChunk(cs, k - 1, xy)

\* The call drew a frame of cels with short buffers.
DrewGaps == gfi.called /\ gfi.out = "ok" /\ input \in GapInputs

\* C23: a pixel whose bytes are missing from the cel's buffer, a cel whose
\* buffer is empty and a cel chunk that does not decode leave every canvas
\* point as it was before that cel: the image shows at each point what the
\* last cel that holds a whole pixel for it wrote.
C23_SkippedLeavesCanvas ==
    DrewGaps =>
        \A xy \in DOMAIN gfi.img[1].Pix :
            gfi.img[1].Pix[xy]
              = AfterChunk(input.frames[1].Chunks, Len(input.frames[1].Chunks), xy)

\* A cel over the whole canvas followed by one that holds its first pixel
\* only: the first point shows the second cel, the others still the first.
C23_Witness ==
    /\ DrewGaps
    /\ input.frames[1].Chunks = << GapCelChunks[1], GapCelChunks[2] >>
    /\ gfi.img[1].Pix[<<0, 0>>] = <<210, 211, 212, 213>>
    /\ gfi.img[1].Pix[<<1, 0>>] = <<140, 141, 142, 255>>
    /\ gfi.img[1].Pix[<<1, 1>>] = <<160, 161, 162, 255>>

\* ---- C24

\* The cel chunks of the input that do not decode, by frame and place.
BadCelsIn(in) ==
    { <<j, k>> \in (1 .. Len(in.frames)) \X (1 .. MaxChunks) :
        /\ k <= Len(in.frames[j].Chunks)
        /\ in.frames[j].Chunks[k] \in BadCelChunks }

\* C24: ParseFile does not look into the payload of a cel chunk: on a file
\* of cel chunks, some of an unsupported cel type, cut short or with a
\* stream that does not inflate, it succeeds and returns every frame with
\* every chunk as stored, payload included, and no tag, as it does when all
\* the cels decode; that a payload does not decode is found by
\* parseCelChunk, which only GetFrameImage calls.
C24_CelsKeptUnread ==
    (Returned /\ input \in CelInputs)
        => /\ Succeeded
           /\ ret.err = NoError
           /\ Len(TheFile.Frames) = Len(input.frames)
           /\ \A j \in 1 .. Len(input.frames) :
                TheFile.Frames[j] = << input.frames[j] >>
           /\ TheFile.Tags = <<>>
           /\ \A jk \in BadCelsIn(input) :
                parseCelChunk(TheFile.Frames[jk[1]][1].Chunks[jk[2]].Data).err # "nil"
           /\ (gfi.called /\ 0 <= gfi.index /\ gfi.index < Len(TheFile.Frames))
                => /\ gfi.out = "ok"
                   /\ gfi.read = Len(input.frames[gfi.index + 1].Chunks)

\* ParseFile returned a File of two frames, the second with a cel chunk
\* that does not decode, and GetFrameImage was called for that frame.
C24_Witness ==
    /\ Succeeded /\ input \in CelInputs
    /\ Len(TheFile.Frames) = 2
    /\ \E jk \in BadCelsIn(input) : jk[1] = 2
    /\ gfi.called /\ gfi.index = 1

\* ---- C25

\* C25: a chunk whose type is neither that of a cel nor that of tags, be
\* its payload that of a cel or that of a Tags chunk, is kept in its frame
\* with its type and payload, adds no tag to File.Tags and changes no pixel
\* of the image of its frame: the tags are those of the Tags chunks and
\* the image shows the cel chunks only.
C25_OtherChunksInert ==
    (Returned /\ input \in OtherInputs)
        => /\ Succeeded
           /\ TheFile.Frames[1] = << input.frames[1] >>
           /\ TheFile.Tags = InputTags(input)
           /\ Len(TheFile.Tags)
                = Cardinality({ k \in 1 .. Len(input.frames[1].Chunks) :
                                  input.frames[1].Chunks[k] = TagsLastChunk })
           /\ (gfi.called /\ gfi.index = 0)
                => /\ gfi.out = "ok"
                   /\ \A xy \in DOMAIN gfi.img[1].Pix :
                        gfi.img[1].Pix[xy]
                          = IF CelAChunk \in { input.frames[1].Chunks[k] :
                                                 k \in 1 .. Len(input.frames[1].Chunks) }
                               /\ Covers(CelA, xy)
                            THEN CelPixelAt(CelA, xy)
                            ELSE ZeroPixel

\* A frame of a cel followed by a chunk of another type with the payload of
\* a cel over the second pixel of the first, drawn: the pixel shows the first.
C25_Witness ==
    /\ Succeeded /\ input \in OtherInputs
    /\ input.frames[1].Chunks = << CelAChunk, OtherCel(CelChunkType + 1) >>
    /\ gfi.called /\ gfi.out = "ok"
    /\ gfi.img[1].Pix[<<1, 0>>] = <<201, 11, 21, 255>>
    /\ TheFile.Frames[1][1].Chunks[2].Data = CelBChunk.Data

\* ---- C26

\* C26: GetFrameImage with any index outside 0 .. len(f.Frames) - 1, the
\* negative ones included, returns an error and no image and does not
\* panic.
C26_OutsideIndexReported ==
    (gfi.called /\ (gfi.index < 0 \/ gfi.index >= Len(TheFile.Frames)))
        => gfi.out = "error" /\ gfi.img = <<>>

\* ---- C27

\* The orc before the last call on it.
Before == last.before[1]

\* C27: TakeDamage on an orc in the Hurt or the Death state changes nothing
\* of the orc: health, state, current frame, the hurt and death timers and
\* the knockback velocity are what they were before the call.
C27_NoDamageWhileHurtOrDead ==
    (last.op = "TakeDamage" /\ Before.state \in {"Hurt", "Death"})
        => /\ orc = Before
           /\ orc.health = Before.health /\ orc.state = Before.state
           /\ orc.currentFrame = Before.currentFrame
           /\ orc.hurtTimer = Before.hurtTimer
           /\ orc.deathTimer = Before.deathTimer
           /\ orc.knockbackX = Before.knockbackX

\* TakeDamage on an orc that is hurt, still knocked back and part of its
\* hurt time gone.
C27_Witness ==
    /\ last.op = "TakeDamage"
    /\ Before.state = "Hurt"
    /\ Before.hurtTimer < HurtTime /\ Before.knockbackX # 0
    /\ Before.currentFrame # Before.ranges.hurtFrameStart

\* ---- C28

\* C28: whatever Update and TakeDamage calls follow NewOrc, the health is
\* between 0 and maxHealth, which is 3, no call raises it, the orc is in
\* the Death state exactly when its health is 0, and a call on an orc in
\* the Death state leaves it there.
C28_HealthAndDeath ==
    /\ orc.maxHealth = 3
    /\ 0 <= orc.health /\ orc.health <= orc.maxHealth
    /\ orc.state = "Death" <=> orc.health = 0
    /\ last.op \in {"Update", "TakeDamage"}
         => /\ orc.health <= Before.health
            /\ Before.state = "Death" => orc.state = "Death"

\* An orc that was hit three times and updated in the Death state until it
\* was marked for removal.
C28_Witness ==
    /\ orc.state = "Death" /\ orc.health = 0
    /\ last.op = "Update" /\ Before.state = "Death"
    /\ orc.shouldRemove

\* ---- C21

\* The numbers in a sequence.
Range(s) == { s[i] : i \in 1 .. Len(s) }

\* The kill counter counts the orcs that left g.orcs, each once, and none
\* that is still there; an orc in g.orcs is never marked for removal.
KillsAreRemovals ==
    /\ game.orcsKilled = Len(game.counted)
    /\ Cardinality(Range(game.counted)) = Len(game.counted)
    /\ Range(game.counted) \cap Range(game.ids) = {}
    /\ Range(game.counted) \cup Range(game.ids) = 1 .. game.spawned
    /\ Len(game.orcs) = Len(game.ids)
    /\ \A i \in 1 .. Len(game.orcs) : ~game.orcs[i].shouldRemove

\* An Update raises the kill counter by the number of orcs it takes off
\* g.orcs and never lowers it.
KillsFollowRemovals ==
    /\ game'.orcsKilled >= game.orcsKilled
    /\ game'.orcsKilled - game.orcsKilled
         = Len(game.orcs) + (game'.spawned - game.spawned) - Len(game'.orcs)

\* C21: the kill counter starts at 0, never decreases, and goes up by one
\* for each orc taken off the orc list, which happens when its death
\* sequence is over; no orc is counted twice and no orc still in the list
\* is counted.
C21_KillCounter ==
    /\ game.orcsKilled = 0
    /\ [](KillsAreRemovals)
    /\ [][KillsFollowRemovals]_game

\* The first orc was killed and counted, the second is in the list.
C21_Witness ==
    /\ game.orcsKilled = 1
    /\ game.counted = <<1>>
    /\ game.ids = <<2>>
    /\ game.orcs[1].health < OrcHealth

\* ---- C29

\* The orc of number n is in g.orcs in the Death state; it was counted and
\* taken off g.orcs.
Dying(n) ==
    \E i \in 1 .. Len(game.orcs) :
        game.ids[i] = n /\ game.orcs[i].state = "Death"
Removed(n) == n \in Range(game.counted)

\* C29: while Update keeps being called, that is until the process exits,
\* every orc that enters the Death state is in the end marked for removal
\* and taken off the orc list.
C29_DyingOrcRemoved ==
    \A n \in 1 .. MaxOrcs : Dying(n) ~> (Removed(n) \/ game.exited)

\* The second orc was killed, marked and taken off the list while the
\* first one, never hit, is still there, and the process has not exited.
C29_Witness ==
    /\ Removed(2) /\ ~Removed(1) /\ ~game.exited
    /\ game.ids = <<1>>
    /\ game.orcs[1].health = OrcHealth

\* ---- C30

\* The toggles of o.flashVisible so far: it starts true and o.flashCount is
\* the number of toggles that made it false.
Toggles(o) == 2 * o.flashCount - (IF o.flashVisible THEN 0 ELSE 1)

\* C30: the Update that marks a dying orc for removal is the one that
\* toggles the visibility for the sixth time, at the end of three on/off
\* cycles.
C30_MarkedAtSixthToggle ==
    (last.op = "Update" /\ ~Before.shouldRemove /\ orc.shouldRemove)
        => Toggles(orc) = 6

\* ---- C31

\* C31: an updateOrcLogic calls Update exactly once on every orc that is
\* in the orc list during the tick, whatever collisions and removals the
\* tick brings.
C31_EveryOrcUpdatedOnce ==
    /\ Len(game.updated) = Len(game.listed)
    /\ Range(game.updated) = Range(game.listed)
    /\ Cardinality(Range(game.updated)) = Len(game.updated)

\* ---- C32

\* The orc whose Update the loop of updateOrcLogic called last in this
\* tick: the one that hit the player, if the player was hit.
LastUpdated(g) == g.updated[Len(g.updated)]

\* An Update that changes g.playerHealth lowers it by OrcDamage at most,
\* finds the player Alive when updateOrcLogic begins, and ends its loop at
\* an orc that meets the player and is not in the Death state.
HealthStep ==
    game'.playerHealth # game.playerHealth =>
        /\ game'.playerHealth < game.playerHealth
        /\ game.playerHealth - game'.playerHealth <= OrcDamage
        /\ updatePlayer(game).playerState = "Alive"
        /\ game'.updated # <<>>
        /\ \E i \in 1 .. Len(game'.orcs) :
              /\ game'.ids[i] = LastUpdated(game')
              /\ game'.geom[i].touch
              /\ game'.orcs[i].state # "Death"

\* C32: the player loses health only in the Alive state and only by
\* meeting an orc that is not in the Death state, 10 points at most in one
\* tick however many orcs meet the player; the health of a Hurt or Dying
\* player does not change.
C32_HealthLostOnlyAlive == [][HealthStep]_game

\* Two living orcs meet the player and one tick has taken 10 points, not
\* 20, from the full health.
C32_Witness ==
    /\ Len(game.orcs) = 2
    /\ \A i \in 1 .. 2 : game.geom[i].touch /\ game.orcs[i].state # "Death"
    /\ game.playerHealth = PlayerHealth - OrcDamage
    /\ game.playerState = "Hurt"
    /\ game.currentFrame = PlayerRanges.hurtFrameStart /\ game.frameTimer = 0

\* ---- C33

\* The values g.playerHealth takes: PlayerHealth less a number of hits.
HealthValues ==
    { PlayerHealth - k * OrcDamage : k \in 0 .. PlayerHealth \div OrcDamage }

\* The health is one of 0, 10, ..., 100 and the player is Dying exactly
\* when it is 0.
HealthAndState ==
    /\ game.playerHealth \in HealthValues
    /\ game.playerHealth >= 0
    /\ game.playerState \in {"Alive", "Hurt", "Dying"}
    /\ game.playerState = "Dying" <=> game.playerHealth = 0

\* An Update of a Dying player leaves it Dying and where it is, whatever
\* keys are pressed.
DyingStays ==
    game.playerState = "Dying" =>
        /\ game'.playerState = "Dying"
        /\ game'.playerHealth = 0
        /\ game'.positionX = game.positionX
        /\ game'.facingLeft = game.facingLeft
        /\ game'.isAttacking = game.isAttacking
        /\ game'.isWalking = game.isWalking

\* C33: the player's health is always one of 0, 10, ..., 100, never
\* negative; the player is Dying if and only if the health is 0; a Dying
\* player never becomes Alive or Hurt again and no input changes its
\* position, its facing or its attack and walking flags.
C33_HealthAndDying == [](HealthAndState) /\ [][DyingStays]_game

\* The player has been Dying for a second with the left key held down and
\* is not walking.
C33_Witness ==
    /\ game.playerState = "Dying" /\ game.playerHealth = 0
    /\ game.keys.left /\ ~game.keys.right
    /\ game.deathTimer = PlayerDeathDelay - 60
    /\ ~game.isWalking /\ ~game.exited

\* ---- C34

\* C34: after every tick the player's horizontal position lies between
\* -screenWidth/2 and screenWidth/2, that is between -768 and 768, whatever
\* the left and right keys and the knockbacks of 100 units did.
C34_PlayerOnScreen ==
    /\ game.positionX >= LeftEdge
    /\ game.positionX <= RightEdge

\* The player walked to the left edge and was hit there by an orc on its
\* right that would have pushed it off the screen.
C34_Witness ==
    /\ game.positionX = LeftEdge
    /\ game.keys.left /\ ~game.keys.right
    /\ game.playerState = "Hurt" /\ game.frameTimer = 0
    /\ game.currentFrame = PlayerRanges.hurtFrameStart
    /\ \E i \in 1 .. Len(game.orcs) :
          /\ game.ids[i] = LastUpdated(game)
          /\ game.geom[i].playerSide = "left"

\* ---- C35

\* The player is Hurt; the Update that comes next finds the hurt animation
\* past its last frame and makes the player Alive before updateOrcLogic
\* runs.
PlayerHurt == game.playerState = "Hurt"
HurtEnds == PlayerHurt /\ updatePlayer(game).playerState = "Alive"

\* An Update in which the player is still Hurt when updateOrcLogic runs:
\* no orc takes health, restarts the hurt animation or moves the player.
HurtUntouched ==
    updatePlayer(game).playerState = "Hurt" =>
        /\ game'.playerState = "Hurt"
        /\ game'.playerHealth = game.playerHealth
        /\ game'.currentFrame = updatePlayer(game).currentFrame
        /\ game'.frameTimer = updatePlayer(game).frameTimer
        /\ game'.positionX = game.positionX

\* C35: a player that enters the Hurt state is made Alive again after
\* finitely many ticks, when the hurt animation passes its last frame,
\* unless the game ends first; while the Hurt state lasts no collision
\* with an orc enters it again or extends it.
C35_HurtEnds ==
    /\ PlayerHurt ~> (HurtEnds \/ game.exited)
    /\ [][HurtUntouched]_game

\* The hurt animation is on its last frame and ends with the next Update,
\* with a living orc on the player all the while.
C35_Witness ==
    /\ HurtEnds
    /\ game.currentFrame = PlayerRanges.hurtFrameEnd
    /\ game.frameTimer = PlayerFrameDuration
    /\ \E i \in 1 .. Len(game.orcs) :
          game.geom[i].touch /\ game.orcs[i].state # "Death"

\* ---- C36

\* C36: after any sequence of Update and TakeDamage calls the orc is in
\* the Walk, Hurt or Death state; it never enters Idle, Attack01 or
\* Attack02.
C36_WalkHurtDeathOnly == orc.state \in {"Walk", "Hurt", "Death"}

\* An Update has ended the Hurt state of an orc that was hit twice, and
\* the orc walks again.
C36_Witness ==
    /\ last.op = "Update"
    /\ Before.state = "Hurt" /\ orc.state = "Walk"
    /\ orc.health = OrcHealth - 2

====
